---- MODULE Spec2Model ----
(***************************************************************************)
(* Shadow ledger of sub-account balances kept beside one Lightning node.   *)
(* The model follows the services layer: DbService (the ledger store       *)
(* adapter), LndService (poller, outgoing payments, notifications) and     *)
(* LndMonitorService.  Every await of the TypeScript source is a step      *)
(* boundary: one action is the code between two awaits of one call.        *)
(***************************************************************************)
EXTENDS Integers, Sequences, FiniteSets, TLC

VARIABLES
  accounts,   \* table "accounts": rows [id, name] in order of creation
  txs,        \* table "lightning_transactions", keyed by the unique rHash
  txs0,       \* the ledger as it was when the calls started (history)
  dbUp,       \* whether the store answers; a store call rejects when it does not
  outages,    \* how many times the store has gone down so far
  invoices,   \* the node's invoices, oldest first
  started,    \* how many operations have been started so far
  pc,         \* per call: the await it is suspended at
  loc,        \* per call: its arguments and local variables
  sends,      \* external sendPayment invocations, in order
  notes,      \* notifyWebhooks invocations, in order
  lastOp,     \* the last updateTransactionStatus call and its outcome
  timers,     \* the interval timers that are set and not cleared
  pollingInterval,  \* LndService.pollingInterval: a timer, or null
  webhooks,   \* table "webhooks": rows [id, accountId, enabled]
  deliveries  \* HTTP requests made to webhook URLs, in order

vars == <<accounts, txs, txs0, dbUp, outages, invoices, started, pc, loc,
          sends, notes, lastOp, timers, pollingInterval, webhooks, deliveries>>

\* groups of variables an action leaves alone
store == <<accounts, txs, txs0>>
health == <<dbUp, outages>>
node == <<invoices, started>>
logs == <<sends, notes, lastOp>>
timer == <<timers, pollingInterval>>
hooks == <<webhooks, deliveries>>

\* private pollingInterval: NodeJS.Timeout | null = null
NoTimer == "null"

\* no timer is set and no webhook is registered
ServiceAtRest ==
  /\ timers = {}
  /\ pollingInterval = NoTimer
  /\ webhooks = <<>>
  /\ deliveries = <<>>

----------------------------------------------------------------------------
(* Bounds of the model *)

\* the store may go down at most this many times in one behaviour
MaxOutages == 1

\* amounts (satoshi) range over 1..MaxAmount
MaxAmount == 3

\* the workers take up at most this many operations in one behaviour
MaxOps == 2

----------------------------------------------------------------------------
(* Data *)

PENDING == "PENDING"
COMPLETE == "COMPLETE"
FAILED == "FAILED"
INCOMING == "INCOMING"
OUTGOING == "OUTGOING"

TransactionStatus == {PENDING, COMPLETE, FAILED}
TransactionType == {INCOMING, OUTGOING}
Terminal == {COMPLETE, FAILED}

\* the accounts created through POST /accounts before the calls start
ExistingAccounts == <<[id |-> "a1", name |-> "alice"], [id |-> "a2", name |-> "bob"]>>

\* the id the store gives the account the monitor creates under the name
\* 'default'
DefaultAccountId == "ad"

\* account ids a caller may pass; "ax" is an id no account row has
AccountIds == {"a1", "a2", "ax"}

\* prisma.account.findUnique({ where: { id } }) finds a row
AccountExists(id) == \E i \in DOMAIN accounts : accounts[i].id = id

Amounts == 1..MaxAmount

NoTx == [status |-> "none"]
NoOp == [op |-> "none"]

\* a row of lightning_transactions (id, memo and timestamps are not modelled)
TxRow(accountId, amount, type, status) ==
  [accountId |-> accountId, amount |-> amount, type |-> type, status |-> status]


\* payment hashes (canonical hex strings in the program)
Hashes == {"h1", "h2", "h3"}

Undefined == "undefined"

----------------------------------------------------------------------------
(* Errors: the class a call rejects with, and the HTTP status the error    *)
(* middleware gives it                                                     *)

NoErr == "none"
NotFoundError == "NotFoundError"            \* AppError, statusCode 404
ConflictError == "ConflictError"            \* AppError, statusCode 409
\* plain Errors, told apart by their message
ExistsError == "Error: Transaction with payment hash already exists"
AccountMissingError == "Error: Account not found"
InsufficientError == "Error: Insufficient balance"
PaymentFailedError == "Error: Payment failed"
PrismaKnownError == "PrismaClientKnownRequestError"   \* P2002 unique constraint
PrismaInitError == "PrismaClientInitializationError"  \* store unreachable
LndApiError == "LndApiError"                \* external node request rejected

\* DatabaseError, an AppError that carries the status handleDatabaseError
\* gave it: 409 for a unique-constraint violation, otherwise here 500
DatabaseConflict == "DatabaseError(409)"
DatabaseError == "DatabaseError(500)"

\* handleDatabaseError(error): a DatabaseError is returned as it is; code
\* P2002 gives 409; an error without a Prisma code gives the default 500
handleDatabaseError(err) ==
  IF err \in {DatabaseError, DatabaseConflict} THEN err
  ELSE IF err = PrismaKnownError THEN DatabaseConflict
  ELSE DatabaseError

StatusCode(err) ==
  CASE err = NotFoundError -> 404
    [] err = ConflictError -> 409
    [] err = DatabaseConflict -> 409
    [] err = PrismaKnownError -> 400
    [] OTHER -> 500

----------------------------------------------------------------------------
(* Control helpers *)

Goto(p, target) == pc' = [pc EXCEPT ![p] = target]

\* the call p rejects with err and control moves to its handler
Throw(p, err, handler) ==
  /\ pc' = [pc EXCEPT ![p] = handler]
  /\ loc' = [loc EXCEPT ![p].err = err]

----------------------------------------------------------------------------
(* The store going down and coming back *)

StoreFails ==
  /\ dbUp
  /\ outages < MaxOutages
  /\ dbUp' = FALSE
  /\ outages' = outages + 1
  /\ UNCHANGED <<store, node, pc, loc, logs, timer, hooks>>

StoreRecovers ==
  /\ ~dbUp
  /\ dbUp' = TRUE
  /\ UNCHANGED <<store, outages, node, pc, loc, logs, timer, hooks>>


----------------------------------------------------------------------------
(* The node's invoices.  A memo is kept as what the program reads from it: *)
(* whether it is empty, whether it starts with the account prefix "LNDA:", *)
(* the first capture of the user-identifier pattern, and the account names *)
(* that occur in it as substrings.                                         *)

NoUser == "none"

Memo(prefixed, userid, mentions) ==
  [empty |-> FALSE, prefixed |-> prefixed, userid |-> userid, mentions |-> mentions]

\* the memo '' (or no memo at all)
NoMemo == [empty |-> TRUE, prefixed |-> FALSE, userid |-> NoUser, mentions |-> {}]

\* lndUtils.extractUserIdentifier(memo, pattern) with USER_IDENTIFIER_PATTERN
\* configured: match ? match[1] : undefined
extractUserIdentifier(memo) == IF memo.userid = NoUser THEN Undefined ELSE memo.userid

\* LndService.isOurInvoice: invoice.memo && invoice.memo.startsWith("LNDA:")
isOurInvoice(invoice) == ~invoice.memo.empty /\ invoice.memo.prefixed

\* finalMemo = memo ? `${memo} userid:${account.name}` : `userid:${account.name}`
\* (the pattern captures the first userid: of the text)
FinalMemo(memo, name) ==
  Memo(memo.prefixed,
       IF memo.userid = NoUser THEN name ELSE memo.userid,
       memo.mentions \cup {name})

\* an invoice as the node lists it
Invoice(rHash, state, memo, value) ==
  [rHash |-> rHash, state |-> state, settled |-> (state = "SETTLED"),
   memo |-> memo, value |-> value]

\* a mapping that does not look at invoice.state
ImpliedBySettledOnly(invoice) == IF invoice.settled THEN COMPLETE ELSE PENDING

\* invoice.settled ? COMPLETE : invoice.state === 'CANCELED' ? FAILED : PENDING
ImpliedStatus(invoice) ==
  IF invoice.settled THEN COMPLETE
  ELSE IF invoice.state = "CANCELED" THEN FAILED
  ELSE PENDING

\* the hashes the node gives its invoices, in order of creation
InvoiceHashes == <<"h1", "h2">>

\* the node holds no more invoices than it has hashes for
NodeFull == Len(invoices) = Len(InvoiceHashes)

\* invoices.invoices.find(inv => toHexString(inv.r_hash_str) === rHash)
RECURSIVE FindInvoice(_, _)
FindInvoice(list, h) ==
  IF list = <<>> THEN [rHash |-> "none"]
  ELSE IF Head(list).rHash = h THEN Head(list)
  ELSE FindInvoice(Tail(list), h)

----------------------------------------------------------------------------
(* LndService.notifyWebhooks is called without await: the call is the      *)
(* dispatch.  Without data.accountId it returns at once.                   *)

Notify(event, h, accountId) ==
  notes' = IF accountId = Undefined THEN notes
           ELSE Append(notes, [event |-> event, rHash |-> h, accountId |-> accountId])

----------------------------------------------------------------------------
(* Workers: a worker is idle or runs one operation of the services.        *)
(* loc[p].op names the operation the call p belongs to.                    *)

Workers == {"w1", "w2"}

WorkerRank(w) == IF w = "w1" THEN 1 ELSE 2

IdleLoc == [op |-> "idle"]

\* the locals of a poller or monitor callback working through its snapshot
\* `queue` of the invoices it still has to handle; Head(queue) is the
\* invoice of the current iteration
LoopLoc(op, queue) ==
  [op |-> op, queue |-> queue, tx |-> NoTx, accountId |-> Undefined,
   input |-> [rHash |-> "none"]]

\* the first await of the loop body
LoopEntry(op) == IF op = "tick" THEN "hu_get" ELSE "mn_find"

\* the callback returns
Finish(p) ==
  /\ pc' = [pc EXCEPT ![p] = "idle"]
  /\ loc' = [loc EXCEPT ![p] = IdleLoc]

\* the loop starts on `queue`, or the callback returns when nothing is left
Loop(p, op, queue) ==
  IF queue = <<>>
    THEN Finish(p)
    ELSE /\ pc' = [pc EXCEPT ![p] = LoopEntry(op)]
         /\ loc' = [loc EXCEPT ![p] = LoopLoc(op, queue)]

\* `continue`, and the end of an iteration
NextInvoice(p) == Loop(p, loc[p].op, Tail(loc[p].queue))

----------------------------------------------------------------------------
(* DbService.createLightningTransaction: three awaits.  loc[p].input is    *)
(* the argument.  What the caller does when the call resolves or rejects   *)
(* runs in the same step, up to the caller's next await.                   *)

\* status: input.status || TransactionStatus.PENDING
InputStatus(input) == IF input.status = Undefined THEN PENDING ELSE input.status

\* the caller's code after `await createLightningTransaction(...)` resolved
Created(p) ==
  LET input == loc[p].input IN
  CASE loc[p].op = "tick" ->
         \* handleInvoiceUpdate: emit, notifyWebhooks('invoice.created')
         /\ Notify("invoice.created", input.rHash, input.accountId)
         /\ NextInvoice(p)
    [] loc[p].op = "invoice" ->
         \* createInvoiceForAccount: emit, notifyWebhooks('invoice.created')
         /\ Notify("invoice.created", input.rHash, input.accountId)
         /\ pc' = [pc EXCEPT ![p] = "iv_resolved"]
         /\ loc' = [loc EXCEPT ![p].writes = @ + 1]
    [] loc[p].op = "pay" ->
         \* sendPaymentFromAccount goes on to the external send
         /\ pc' = [pc EXCEPT ![p] = "sp_send"]
         /\ loc' = [loc EXCEPT ![p].writes = @ + 1]
         /\ UNCHANGED notes
    [] OTHER ->
         /\ pc' = [pc EXCEPT ![p] = "ct_ok"]
         /\ loc' = [loc EXCEPT ![p].writes = @ + 1]
         /\ UNCHANGED notes

\* the call rejects with err: the caller's catch block, or its own rejection
CreateFailed(p, err) ==
  CASE loc[p].op = "tick" -> NextInvoice(p)   \* caught and logged
    [] loc[p].op = "invoice" -> Throw(p, err, "iv_rejected")
    [] loc[p].op = "pay" -> Throw(p, err, "sp_rejected")
    [] OTHER -> Throw(p, err, "ct_failed")

\* a createLightningTransaction that does not look the account up
CltFindAccountUnchecked(p) ==
  /\ pc[p] = "ct_account"
  /\ IF ~dbUp
       THEN CreateFailed(p, PrismaInitError)
       ELSE Goto(p, "ct_exists") /\ UNCHANGED loc
  /\ UNCHANGED <<store, health, node, logs, timer, hooks>>

\* await prisma.account.findUnique({ where: { id: input.accountId } })
CltFindAccount(p) ==
  /\ pc[p] = "ct_account"
  /\ IF ~dbUp
       THEN CreateFailed(p, PrismaInitError)
       ELSE IF ~AccountExists(loc[p].input.accountId)
         THEN CreateFailed(p, NotFoundError)
         ELSE Goto(p, "ct_exists") /\ UNCHANGED loc
  /\ UNCHANGED <<store, health, node, logs, timer, hooks>>

\* await prisma.lightningTransaction.findUnique({ where: { rHash } })
CltFindExisting(p) ==
  /\ pc[p] = "ct_exists"
  /\ IF ~dbUp
       THEN CreateFailed(p, PrismaInitError)
       ELSE IF txs[loc[p].input.rHash] # NoTx
         THEN CreateFailed(p, ExistsError)
         ELSE Goto(p, "ct_insert") /\ UNCHANGED loc
  /\ UNCHANGED <<store, health, node, logs, timer, hooks>>

\* the row prisma.lightningTransaction.create writes
NewRow(input) ==
  TxRow(input.accountId, input.amount, input.type, InputStatus(input))

\* a table without the unique constraint takes every insert
InsertUnconstrained(input) == TRUE

\* whether the insert passes the table's constraints: rHash @unique
InsertAllowed(input) == txs[input.rHash] = NoTx

\* await prisma.lightningTransaction.create({ data })
CltInsert(p) ==
  /\ pc[p] = "ct_insert"
  /\ IF ~dbUp
       THEN CreateFailed(p, PrismaInitError) /\ UNCHANGED <<txs, notes>>
       ELSE IF ~InsertAllowed(loc[p].input)
         THEN CreateFailed(p, PrismaKnownError) /\ UNCHANGED <<txs, notes>>
         ELSE /\ txs' = [txs EXCEPT ![loc[p].input.rHash] = NewRow(loc[p].input)]
              /\ Created(p)
  /\ UNCHANGED <<accounts, txs0, health, node, sends, lastOp, timer, hooks>>

----------------------------------------------------------------------------
(* Balances *)

\* what one row adds to the running total of the reduce in getAccount
Signed(row) == IF row.type = INCOMING THEN row.amount ELSE 0 - row.amount

RECURSIVE SumRows(_, _)
SumRows(t, S) ==
  IF S = {} THEN 0
  ELSE LET h == CHOOSE x \in S : TRUE
       IN  Signed(t[h]) + SumRows(t, S \ {h})

\* account.transactions of include: { transactions: true }
RowsOf(t, id) == {h \in Hashes : t[h] # NoTx /\ t[h].accountId = id}

\* DbService.getAccount / getAllAccounts: the reduce runs over every row of
\* the account, whatever its status
AccountBalance(t, id) == SumRows(t, RowsOf(t, id))

\* AccountController.getAccountBalance: .filter(tx => tx.status === 'COMPLETE')
EndpointBalance(t, id) ==
  SumRows(t, {h \in RowsOf(t, id) : t[h].status = COMPLETE})

----------------------------------------------------------------------------
(* DbService.updateTransactionStatus.  Rows are never deleted, so the      *)
(* lookup and the update that follows it are taken as one step.            *)

UpdateError(h) ==
  IF ~dbUp THEN PrismaInitError
  ELSE IF txs[h] = NoTx THEN NotFoundError
  ELSE NoErr

\* data: { status } -- the requested status is written as it is
StatusWritten(current, requested) == requested

UpdatedTxs(h, s) == [txs EXCEPT ![h].status = StatusWritten(txs[h].status, s)]

UpdateRecord(h, s) ==
  [op |-> "update", rHash |-> h, from |-> txs[h].status, to |-> s,
   err |-> UpdateError(h)]

----------------------------------------------------------------------------
(* LndService.sendPaymentFromAccount(accountId, paymentRequest)            *)

\* the value of the local `amount` before decodePaymentRequest has resolved
NotDecoded == 0 - 1

\* num_satoshis !== undefined ? String(num_satoshis) : '0'
DecodedAmount(decoded) == IF decoded.hasSats THEN decoded.numSatoshis ELSE 0

\* a balance check that lets through a payment of one satoshi more than the
\* balance
InsufficientOffByOne(balance, amount) == balance + 1 < amount

\* BigInt(balance) < BigInt(amount)
Insufficient(balance, amount) == balance < amount

\* the locals of one sendPaymentFromAccount(accountId, paymentRequest) call;
\* payReq is what decodePaymentRequest will report for paymentRequest
PayLoc(accountId, payReq) ==
  [op |-> "pay", accountId |-> accountId, payReq |-> payReq,
   balance |-> 0, amount |-> NotDecoded, sendResult |-> "none",
   input |-> [rHash |-> payReq.paymentHash], err |-> NoErr, writes |-> 0]

\* await this.dbService.getAccount(accountId)
PayGetAccount(p) ==
  /\ pc[p] = "sp_account"
  /\ IF ~dbUp
       THEN Throw(p, PrismaInitError, "sp_rejected")
       ELSE IF ~AccountExists(loc[p].accountId)
         THEN Throw(p, AccountMissingError, "sp_rejected")
         ELSE /\ loc' = [loc EXCEPT ![p].balance = AccountBalance(txs, loc[p].accountId)]
              /\ Goto(p, "sp_decode")
  /\ UNCHANGED <<store, health, node, logs, timer, hooks>>

\* await this.decodePaymentRequest(paymentRequest), then the balance check
PayDecode(p) ==
  /\ pc[p] = "sp_decode"
  /\ \/ Throw(p, LndApiError, "sp_rejected")
     \/ LET amount == DecodedAmount(loc[p].payReq)
        IN  IF Insufficient(loc[p].balance, amount)
              THEN /\ pc' = [pc EXCEPT ![p] = "sp_rejected"]
                   /\ loc' = [loc EXCEPT ![p].err = InsufficientError,
                                         ![p].amount = amount]
              ELSE /\ pc' = [pc EXCEPT ![p] = "ct_account"]
                   /\ loc' = [loc EXCEPT
                        ![p].amount = amount,
                        ![p].input = [accountId |-> loc[p].accountId,
                                      rHash |-> loc[p].payReq.paymentHash,
                                      amount |-> amount,
                                      type |-> OUTGOING,
                                      status |-> PENDING]]
  /\ UNCHANGED <<store, health, node, logs, timer, hooks>>

\* a call that sends again when the request rejects
AfterSendRetrying(result) ==
  CASE result = "ok" -> "sp_complete"
    [] result = "payment_error" -> "sp_markFailed"
    [] OTHER -> "sp_send"

\* where the call goes after the external send: the node answers without
\* payment_error, answers with payment_error, or the request rejects
AfterSend(result) ==
  CASE result = "ok" -> "sp_complete"
    [] result = "payment_error" -> "sp_markFailed"
    [] OTHER -> "sp_catch"

\* await this.sendPayment(paymentRequest)
PaySend(p) ==
  /\ pc[p] = "sp_send"
  /\ \E result \in {"ok", "payment_error", "threw"} :
       /\ pc' = [pc EXCEPT ![p] = AfterSend(result)]
       /\ loc' = [loc EXCEPT ![p].sendResult = result,
                             ![p].err = IF result = "threw" THEN LndApiError ELSE @]
  /\ sends' = Append(sends,
       [call |-> p, accountId |-> loc[p].accountId, rHash |-> loc[p].input.rHash,
        amount |-> loc[p].amount, row |-> txs[loc[p].input.rHash],
        settled |-> EndpointBalance(txs, loc[p].accountId)])
  /\ UNCHANGED <<store, health, node, notes, lastOp, timer, hooks>>

\* payment_error: await updateTransactionStatus(rHash, FAILED); emit;
\* notifyWebhooks('payment.failed'); throw new Error('Payment failed: ...')
PayMarkFailed(p) ==
  LET h == loc[p].input.rHash IN
  /\ pc[p] = "sp_markFailed"
  /\ lastOp' = UpdateRecord(h, FAILED)
  /\ IF UpdateError(h) # NoErr
       THEN Throw(p, UpdateError(h), "sp_catch") /\ UNCHANGED <<txs, notes>>
       ELSE /\ txs' = UpdatedTxs(h, FAILED)
            /\ Notify("payment.failed", h, loc[p].accountId)
            /\ pc' = [pc EXCEPT ![p] = "sp_catch"]
            /\ loc' = [loc EXCEPT ![p].err = PaymentFailedError, ![p].writes = @ + 1]
  /\ UNCHANGED <<accounts, txs0, health, node, sends, timer, hooks>>

\* no payment_error: await updateTransactionStatus(rHash, COMPLETE); emit;
\* notifyWebhooks('payment.completed')
PayMarkComplete(p) ==
  LET h == loc[p].input.rHash IN
  /\ pc[p] = "sp_complete"
  /\ lastOp' = UpdateRecord(h, COMPLETE)
  /\ IF UpdateError(h) # NoErr
       THEN Throw(p, UpdateError(h), "sp_catch") /\ UNCHANGED <<txs, notes>>
       ELSE /\ txs' = UpdatedTxs(h, COMPLETE)
            /\ Notify("payment.completed", h, loc[p].accountId)
            /\ pc' = [pc EXCEPT ![p] = "sp_reread"]
            /\ loc' = [loc EXCEPT ![p].writes = @ + 1]
  /\ UNCHANGED <<accounts, txs0, health, node, sends, timer, hooks>>

\* return { payment, transaction: await getTransactionByRHash(rHash) }
PayReread(p) ==
  /\ pc[p] = "sp_reread"
  /\ IF ~dbUp
       THEN Throw(p, PrismaInitError, "sp_catch")
       ELSE Goto(p, "sp_resolved") /\ UNCHANGED loc
  /\ UNCHANGED <<store, health, node, logs, timer, hooks>>

\* catch (error) { await updateTransactionStatus(rHash, FAILED); throw error }
PayCatch(p) ==
  LET h == loc[p].input.rHash IN
  /\ pc[p] = "sp_catch"
  /\ lastOp' = UpdateRecord(h, FAILED)
  /\ IF UpdateError(h) # NoErr
       THEN Throw(p, UpdateError(h), "sp_rejected") /\ UNCHANGED txs
       ELSE /\ txs' = UpdatedTxs(h, FAILED)
            /\ pc' = [pc EXCEPT ![p] = "sp_rejected"]
            /\ loc' = [loc EXCEPT ![p].writes = @ + 1]
  /\ UNCHANGED <<accounts, txs0, health, node, sends, notes, timer, hooks>>

----------------------------------------------------------------------------
(* The Lightning node: invoices are added, settled and canceled outside    *)
(* the program                                                             *)

\* memos of invoices made at the node directly: "LNDA: userid:alice", and a
\* text with neither prefix, user identifier nor account name
NodeMemos == {Memo(TRUE, "alice", {"alice"}), Memo(FALSE, NoUser, {})}

\* the amounts of invoices made at the node directly
NodeValues == {2}

NodeAddsInvoice ==
  /\ ~NodeFull
  /\ \E memo \in NodeMemos, value \in NodeValues :
       invoices' = Append(invoices,
         Invoice(InvoiceHashes[Len(invoices) + 1], "OPEN", memo, value))
  /\ UNCHANGED <<store, health, started, pc, loc, logs, timer, hooks>>

NodeSettles ==
  \E i \in DOMAIN invoices :
    /\ invoices[i].state = "OPEN"
    /\ invoices' = [invoices EXCEPT ![i] =
         Invoice(@.rHash, "SETTLED", @.memo, @.value)]
    /\ UNCHANGED <<store, health, started, pc, loc, logs, timer, hooks>>

NodeCancels ==
  \E i \in DOMAIN invoices :
    /\ invoices[i].state = "OPEN"
    /\ invoices' = [invoices EXCEPT ![i] =
         Invoice(@.rHash, "CANCELED", @.memo, @.value)]
    /\ UNCHANGED <<store, health, started, pc, loc, logs, timer, hooks>>

\* GET invoices?num_max_invoices=100: the newest ListLimit invoices
ListLimit == 100

Listed ==
  IF Len(invoices) <= ListLimit THEN invoices
  ELSE SubSeq(invoices, Len(invoices) - ListLimit + 1, Len(invoices))

\* an operation is taken up by the first idle worker
Begins(w) ==
  /\ pc[w] = "idle"
  /\ \A v \in Workers : pc[v] = "idle" => WorkerRank(w) <= WorkerRank(v)
  /\ started < MaxOps
  /\ started' = started + 1

----------------------------------------------------------------------------
(* LndService.setupPolling: the interval callback, and                     *)
(* LndService.handleInvoiceUpdate for each invoice it does not skip        *)

\* the callback fires and `await this.listInvoices(100)` settles; invoices
\* without the account prefix are skipped without awaiting
PollTick(w) ==
  /\ Begins(w)
  /\ \/ Finish(w)                                   \* the request rejects
     \/ Loop(w, "tick", SelectSeq(Listed, isOurInvoice))
  /\ UNCHANGED <<store, health, invoices, logs, timer, hooks>>

\* const transaction = await this.dbService.getTransactionByRHash(rHash)
HuGet(w) ==
  /\ pc[w] = "hu_get"
  /\ LET invoice == Head(loc[w].queue)
         h == invoice.rHash
     IN  IF ~dbUp
           THEN NextInvoice(w)                      \* caught by the loop
           ELSE IF txs[h] # NoTx
             THEN IF txs[h].status # ImpliedStatus(invoice)
                    THEN /\ pc' = [pc EXCEPT ![w] = "hu_update"]
                         /\ loc' = [loc EXCEPT ![w].tx = txs[h]]
                    ELSE NextInvoice(w)
             ELSE IF ~invoice.memo.empty
                     /\ extractUserIdentifier(invoice.memo) # Undefined
                    THEN Goto(w, "hu_accounts") /\ UNCHANGED loc
                    ELSE NextInvoice(w)
  /\ UNCHANGED <<store, health, node, logs, timer, hooks>>

\* a handleInvoiceUpdate that notifies before it knows the outcome of the
\* update
HuUpdateNotifyingFirst(w) ==
  /\ pc[w] = "hu_update"
  /\ LET h == Head(loc[w].queue).rHash
         newStatus == ImpliedStatus(Head(loc[w].queue))
     IN  /\ lastOp' = UpdateRecord(h, newStatus)
         /\ Notify("invoice.updated", h, loc[w].tx.accountId)
         /\ IF UpdateError(h) # NoErr
              THEN UNCHANGED txs
              ELSE txs' = UpdatedTxs(h, newStatus)
  /\ NextInvoice(w)
  /\ UNCHANGED <<accounts, txs0, health, node, sends, timer, hooks>>

\* await this.dbService.updateTransactionStatus(rHash, newStatus); emit;
\* notifyWebhooks('invoice.updated', { accountId: transaction.accountId })
HuUpdate(w) ==
  /\ pc[w] = "hu_update"
  /\ LET h == Head(loc[w].queue).rHash
         newStatus == ImpliedStatus(Head(loc[w].queue))
     IN  /\ lastOp' = UpdateRecord(h, newStatus)
         /\ IF UpdateError(h) # NoErr
              THEN UNCHANGED <<txs, notes>>
              ELSE /\ txs' = UpdatedTxs(h, newStatus)
                   /\ Notify("invoice.updated", h, loc[w].tx.accountId)
  /\ NextInvoice(w)
  /\ UNCHANGED <<accounts, txs0, health, node, sends, timer, hooks>>

\* DbService.getAllAccounts(limit = 20, page = 1)
PageLimit == 20

\* orderBy createdAt desc, take limit: the newest PageLimit accounts
FirstPage(rows) ==
  IF Len(rows) <= PageLimit THEN rows
  ELSE SubSeq(rows, Len(rows) - PageLimit + 1, Len(rows))

NoAccount == [id |-> Undefined, name |-> Undefined]

\* rows.find(acc => acc.name === name)
RECURSIVE FindByName(_, _)
FindByName(rows, name) ==
  IF rows = <<>> THEN NoAccount
  ELSE IF Head(rows).name = name THEN Head(rows)
  ELSE FindByName(Tail(rows), name)

\* const accounts = await this.dbService.getAllAccounts(); accounts.find(...)
HuAccounts(w) ==
  /\ pc[w] = "hu_accounts"
  /\ LET invoice == Head(loc[w].queue)
         account == FindByName(FirstPage(accounts), extractUserIdentifier(invoice.memo))
     IN  IF ~dbUp \/ account = NoAccount
           THEN NextInvoice(w)
           ELSE /\ pc' = [pc EXCEPT ![w] = "ct_account"]
                /\ loc' = [loc EXCEPT ![w].input =
                     [accountId |-> account.id,
                      rHash |-> invoice.rHash,
                      amount |-> invoice.value,
                      type |-> INCOMING,
                      status |-> IF invoice.settled THEN COMPLETE ELSE PENDING]]
  /\ UNCHANGED <<store, health, node, logs, timer, hooks>>

----------------------------------------------------------------------------
(* LndMonitorService.checkForNewTransactions                               *)

\* the run starts and `await lndService.listInvoices()` settles; unsettled
\* invoices are skipped without awaiting
MonitorTick(w) ==
  /\ Begins(w)
  /\ \/ Finish(w)                                   \* the request rejects
     \/ Loop(w, "monitor", SelectSeq(Listed, LAMBDA inv : inv.settled))
  /\ UNCHANGED <<store, health, invoices, logs, timer, hooks>>

\* await this.prisma.lightningTransaction.findUnique({ where: { rHash } });
\* a store error ends the whole run (the only catch is around the loop)
MnFind(w) ==
  /\ pc[w] = "mn_find"
  /\ LET invoice == Head(loc[w].queue)
         h == invoice.rHash
     IN  IF ~dbUp
           THEN Finish(w)
           ELSE IF txs[h] # NoTx
             THEN IF txs[h].status # COMPLETE
                    THEN Goto(w, "mn_update") /\ UNCHANGED loc
                    ELSE NextInvoice(w)
             ELSE IF invoice.memo.userid # NoUser
                    THEN Goto(w, "mn_byName") /\ UNCHANGED loc
                    ELSE Goto(w, "mn_all") /\ UNCHANGED loc
  /\ UNCHANGED <<store, health, node, logs, timer, hooks>>

\* await this.prisma.lightningTransaction.update({ data: { status: 'COMPLETE' } })
MnUpdate(w) ==
  /\ pc[w] = "mn_update"
  /\ IF ~dbUp
       THEN Finish(w) /\ UNCHANGED txs
       ELSE /\ txs' = [txs EXCEPT ![Head(loc[w].queue).rHash].status = COMPLETE]
            /\ NextInvoice(w)
  /\ UNCHANGED <<accounts, txs0, health, node, logs, timer, hooks>>

\* a resolver that goes to the scan of all accounts without the lookup by
\* the captured name
MnByNameSkipped(w) ==
  /\ pc[w] = "mn_byName"
  /\ IF ~dbUp THEN Finish(w) ELSE Goto(w, "mn_all") /\ UNCHANGED loc
  /\ UNCHANGED <<store, health, node, logs, timer, hooks>>

\* determineAccountFromMemo: await prisma.account.findUnique({ where: { name } })
MnByName(w) ==
  /\ pc[w] = "mn_byName"
  /\ LET account == FindByName(accounts, Head(loc[w].queue).memo.userid)
     IN  IF ~dbUp
           THEN Finish(w)
           ELSE IF account # NoAccount
             THEN /\ pc' = [pc EXCEPT ![w] = "mn_create"]
                  /\ loc' = [loc EXCEPT ![w].accountId = account.id]
             ELSE Goto(w, "mn_all") /\ UNCHANGED loc
  /\ UNCHANGED <<store, health, node, logs, timer, hooks>>

\* for (const account of accounts) if (memo includes account.name) return
RECURSIVE FindMentioned(_, _)
FindMentioned(rows, memo) ==
  IF rows = <<>> THEN NoAccount
  ELSE IF Head(rows).name \in memo.mentions THEN Head(rows)
  ELSE FindMentioned(Tail(rows), memo)

\* determineAccountFromMemo: await this.prisma.account.findMany()
MnAll(w) ==
  /\ pc[w] = "mn_all"
  /\ LET account == FindMentioned(accounts, Head(loc[w].queue).memo)
     IN  IF ~dbUp
           THEN Finish(w)
           ELSE IF account # NoAccount
             THEN /\ pc' = [pc EXCEPT ![w] = "mn_create"]
                  /\ loc' = [loc EXCEPT ![w].accountId = account.id]
             ELSE Goto(w, "mn_default") /\ UNCHANGED loc
  /\ UNCHANGED <<store, health, node, logs, timer, hooks>>

\* findFirst({ where: { name: { in: ['default', 'unassigned'] } } })
RECURSIVE FindDefault(_)
FindDefault(rows) ==
  IF rows = <<>> THEN NoAccount
  ELSE IF Head(rows).name \in {"default", "unassigned"} THEN Head(rows)
  ELSE FindDefault(Tail(rows))

\* findDefaultAccount: await this.prisma.account.findFirst(...)
MnDefault(w) ==
  /\ pc[w] = "mn_default"
  /\ IF ~dbUp
       THEN Finish(w)
       ELSE IF FindDefault(accounts) # NoAccount
         THEN /\ pc' = [pc EXCEPT ![w] = "mn_create"]
              /\ loc' = [loc EXCEPT ![w].accountId = FindDefault(accounts).id]
         ELSE Goto(w, "mn_mkDefault") /\ UNCHANGED loc
  /\ UNCHANGED <<store, health, node, logs, timer, hooks>>

\* findDefaultAccount: await this.prisma.account.create({ name: 'default' });
\* a failure is caught, no account is determined and the invoice is passed over
MnMkDefault(w) ==
  /\ pc[w] = "mn_mkDefault"
  /\ IF ~dbUp \/ FindByName(accounts, "default") # NoAccount
       THEN NextInvoice(w) /\ UNCHANGED accounts
       ELSE /\ accounts' = Append(accounts, [id |-> DefaultAccountId, name |-> "default"])
            /\ pc' = [pc EXCEPT ![w] = "mn_create"]
            /\ loc' = [loc EXCEPT ![w].accountId = DefaultAccountId]
  /\ UNCHANGED <<txs, txs0, health, node, logs, timer, hooks>>

\* await this.prisma.lightningTransaction.create({ status: 'COMPLETE', ... })
MnCreate(w) ==
  /\ pc[w] = "mn_create"
  /\ LET invoice == Head(loc[w].queue)
     IN  IF ~dbUp \/ txs[invoice.rHash] # NoTx
           THEN Finish(w) /\ UNCHANGED txs
           ELSE /\ txs' = [txs EXCEPT ![invoice.rHash] =
                     TxRow(loc[w].accountId, invoice.value, INCOMING, COMPLETE)]
                /\ NextInvoice(w)
  /\ UNCHANGED <<accounts, txs0, health, node, logs, timer, hooks>>

----------------------------------------------------------------------------
(* LndService.checkInvoiceStatus(rHash), behind GET /invoices/status/:rHash *)

NotFoundPlainError == "Error: Transaction not found for r_hash"

CheckLoc(h) ==
  [op |-> "check", rHash |-> h, tx |-> NoTx, newStatus |-> Undefined,
   result |-> Undefined, err |-> NoErr, writes |-> 0]

StartCheck(w) ==
  /\ Begins(w)
  /\ \E h \in {InvoiceHashes[i] : i \in DOMAIN InvoiceHashes} :
       /\ pc' = [pc EXCEPT ![w] = "ck_get"]
       /\ loc' = [loc EXCEPT ![w] = CheckLoc(h)]
  /\ UNCHANGED <<store, health, invoices, logs, timer, hooks>>

\* the call resolves with { settled, status }
CheckResolves(w, status) ==
  /\ pc' = [pc EXCEPT ![w] = "ck_resolved"]
  /\ loc' = [loc EXCEPT ![w].result = status]

\* const transaction = await this.dbService.getTransactionByRHash(rHash)
CkGet(w) ==
  /\ pc[w] = "ck_get"
  /\ LET h == loc[w].rHash
     IN  IF ~dbUp
           THEN Throw(w, PrismaInitError, "ck_rejected")
           ELSE IF txs[h] = NoTx
             THEN Throw(w, NotFoundPlainError, "ck_rejected")
             ELSE IF txs[h].status \in Terminal
               THEN CheckResolves(w, txs[h].status)
               ELSE /\ pc' = [pc EXCEPT ![w] = "ck_lookup"]
                    /\ loc' = [loc EXCEPT ![w].tx = txs[h]]
  /\ UNCHANGED <<store, health, node, logs, timer, hooks>>

\* the rest of the call once an invoice is in hand: update when the status
\* implied by the invoice differs from the one read at the start
CheckCompare(w, invoice, updatePc) ==
  IF loc[w].tx.status # ImpliedStatus(invoice)
    THEN /\ pc' = [pc EXCEPT ![w] = updatePc]
         /\ loc' = [loc EXCEPT ![w].newStatus = ImpliedStatus(invoice)]
    ELSE CheckResolves(w, ImpliedStatus(invoice))

\* const invoice = await this.makeRequest('GET', `invoice/${rHash}`)
CkLookup(w) ==
  /\ pc[w] = "ck_lookup"
  /\ LET invoice == FindInvoice(invoices, loc[w].rHash)
     IN  \/ Goto(w, "ck_list") /\ UNCHANGED loc     \* the request rejects
         \/ /\ invoice.rHash # "none"
            /\ CheckCompare(w, invoice, "ck_update")
  /\ UNCHANGED <<store, health, node, logs, timer, hooks>>

\* direct lookup: await updateTransactionStatus(rHash, newStatus); an error is
\* caught with the lookup's and the call falls back to the list
CkUpdate(w) ==
  /\ pc[w] = "ck_update"
  /\ LET h == loc[w].rHash
     IN  /\ lastOp' = UpdateRecord(h, loc[w].newStatus)
         /\ IF UpdateError(h) # NoErr
              THEN Goto(w, "ck_list") /\ UNCHANGED <<txs, loc>>
              ELSE /\ txs' = UpdatedTxs(h, loc[w].newStatus)
                   /\ pc' = [pc EXCEPT ![w] = "ck_resolved"]
                   /\ loc' = [loc EXCEPT ![w].result = loc[w].newStatus,
                                         ![w].writes = @ + 1]
  /\ UNCHANGED <<accounts, txs0, health, node, sends, notes, timer, hooks>>

\* const invoices = await this.listInvoices(100); invoices.find(...)
CkList(w) ==
  /\ pc[w] = "ck_list"
  /\ LET invoice == FindInvoice(Listed, loc[w].rHash)
     IN  \/ Throw(w, LndApiError, "ck_rejected")    \* the request rejects
         \/ IF invoice.rHash # "none"
              THEN CheckCompare(w, invoice, "ck_updateList")
              ELSE CheckResolves(w, loc[w].tx.status)
  /\ UNCHANGED <<store, health, node, logs, timer, hooks>>

\* list fallback: await updateTransactionStatus(rHash, newStatus); then
\* notifyWebhooks('invoice.updated') if newStatus is COMPLETE
CkUpdateList(w) ==
  /\ pc[w] = "ck_updateList"
  /\ LET h == loc[w].rHash
         newStatus == loc[w].newStatus
     IN  /\ lastOp' = UpdateRecord(h, newStatus)
         /\ IF UpdateError(h) # NoErr
              THEN Throw(w, UpdateError(h), "ck_rejected") /\ UNCHANGED <<txs, notes>>
              ELSE /\ txs' = UpdatedTxs(h, newStatus)
                   /\ IF newStatus = COMPLETE
                        THEN Notify("invoice.updated", h, loc[w].tx.accountId)
                        ELSE UNCHANGED notes
                   /\ pc' = [pc EXCEPT ![w] = "ck_resolved"]
                   /\ loc' = [loc EXCEPT ![w].result = newStatus,
                                         ![w].writes = @ + 1]
  /\ UNCHANGED <<accounts, txs0, health, node, sends, timer, hooks>>

----------------------------------------------------------------------------
(* LndService.processMultipleInvoices(invoices)                            *)

\* the lists a caller passes: entries { rHash, accountId }
MultiEntries == [rHash : {"h1", "h2"}, accountId : {"a1", "a2"}]

MultiLists ==
  {{e} : e \in {x \in MultiEntries : x.rHash = "h1"}} \cup
  {{[rHash |-> "h1", accountId |-> "a1"], [rHash |-> "h2", accountId |-> "a1"]}}

StartMulti(w) ==
  /\ Begins(w)
  /\ \E list \in MultiLists :
       /\ pc' = [pc EXCEPT ![w] = "pm_list"]
       /\ loc' = [loc EXCEPT ![w] =
            [op |-> "multi", entries |-> list, err |-> NoErr, writes |-> 0]]
  /\ UNCHANGED <<store, health, invoices, logs, timer, hooks>>

\* Promise.all has settled: the call resolves, or rejects with the first error
MultiSettles(w, entries, err, writes) ==
  /\ pc' = [pc EXCEPT ![w] = IF entries # {} THEN "pm_update"
                             ELSE IF err # NoErr THEN "pm_rejected"
                             ELSE "pm_resolved"]
  /\ loc' = [loc EXCEPT ![w].entries = entries, ![w].err = err,
                        ![w].writes = writes]

\* const lndInvoicesMap = await this.getInvoicesByRHash(rHashes); the entries
\* whose invoice is missing or not settled finish without awaiting
PmList(w) ==
  /\ pc[w] = "pm_list"
  /\ \/ Throw(w, LndApiError, "pm_rejected")        \* the request rejects
     \/ MultiSettles(w,
          {e \in loc[w].entries :
             /\ FindInvoice(Listed, e.rHash).rHash # "none"
             /\ FindInvoice(Listed, e.rHash).settled},
          NoErr, 0)
  /\ UNCHANGED <<store, health, node, logs, timer, hooks>>

\* one entry: await updateTransactionStatus(rHash, COMPLETE);
\* await this.notifyWebhooks('invoice.updated', { accountId })
PmUpdate(w) ==
  /\ pc[w] = "pm_update"
  /\ \E e \in loc[w].entries :
       /\ lastOp' = UpdateRecord(e.rHash, COMPLETE)
       /\ IF UpdateError(e.rHash) # NoErr
            THEN /\ MultiSettles(w, loc[w].entries \ {e},
                      IF loc[w].err = NoErr THEN UpdateError(e.rHash) ELSE loc[w].err,
                      loc[w].writes)
                 /\ UNCHANGED <<txs, notes>>
            ELSE /\ txs' = UpdatedTxs(e.rHash, COMPLETE)
                 /\ Notify("invoice.updated", e.rHash, e.accountId)
                 /\ MultiSettles(w, loc[w].entries \ {e}, loc[w].err, loc[w].writes + 1)
  /\ UNCHANGED <<accounts, txs0, health, node, sends, timer, hooks>>

----------------------------------------------------------------------------
(* LndService.createInvoiceForAccount(accountId, amount, memo)             *)

\* the locals of one createInvoiceForAccount(accountId, amount, memo) call
InvoiceLoc(accountId, amount, memo) ==
  [op |-> "invoice", accountId |-> accountId, amount |-> amount,
   memo |-> memo, input |-> [rHash |-> "none"], err |-> NoErr, writes |-> 0]

StartInvoice(w) ==
  /\ Begins(w)
  /\ \E accountId \in {"a1", "ax"}, amount \in {1},
        memo \in {NoMemo, Memo(TRUE, NoUser, {})} :
       /\ pc' = [pc EXCEPT ![w] = "iv_account"]
       /\ loc' = [loc EXCEPT ![w] = InvoiceLoc(accountId, amount, memo)]
  /\ UNCHANGED <<store, health, invoices, logs, timer, hooks>>

\* the row of the account with this id
AccountRow(id) == accounts[CHOOSE i \in DOMAIN accounts : accounts[i].id = id]

\* const account = await this.dbService.getAccount(accountId); finalMemo
IvGetAccount(w) ==
  /\ pc[w] = "iv_account"
  /\ IF ~dbUp
       THEN Throw(w, PrismaInitError, "iv_rejected")
       ELSE IF ~AccountExists(loc[w].accountId)
         THEN Throw(w, AccountMissingError, "iv_rejected")
         ELSE /\ pc' = [pc EXCEPT ![w] = "iv_lnd"]
              /\ loc' = [loc EXCEPT ![w].memo =
                   FinalMemo(@, AccountRow(loc[w].accountId).name)]
  /\ UNCHANGED <<store, health, node, logs, timer, hooks>>

\* const invoice = await this.createInvoice(amount, finalMemo, expiry)
IvCreateInvoice(w) ==
  /\ pc[w] = "iv_lnd"
  /\ \/ /\ Throw(w, LndApiError, "iv_rejected")     \* the request rejects
        /\ UNCHANGED invoices
     \/ /\ ~NodeFull
        /\ LET h == InvoiceHashes[Len(invoices) + 1]
           IN  /\ invoices' = Append(invoices,
                    Invoice(h, "OPEN", loc[w].memo, loc[w].amount))
               /\ pc' = [pc EXCEPT ![w] = "ct_account"]
               /\ loc' = [loc EXCEPT ![w].input =
                    [accountId |-> loc[w].accountId,
                     rHash |-> h,
                     amount |-> loc[w].amount,
                     type |-> INCOMING,
                     status |-> PENDING]]
  /\ UNCHANGED <<store, health, started, logs, timer, hooks>>

----------------------------------------------------------------------------
(* Calls of sendPaymentFromAccount on the workers, and calls returning     *)

\* payment requests of payees outside the node
PayRequests ==
  {[paymentHash |-> "h3", hasSats |-> FALSE, numSatoshis |-> 0],
   [paymentHash |-> "h3", hasSats |-> TRUE, numSatoshis |-> 1]}

StartPay(w) ==
  /\ Begins(w)
  /\ \E accountId \in {"a1"}, payReq \in PayRequests :
       /\ pc' = [pc EXCEPT ![w] = "sp_account"]
       /\ loc' = [loc EXCEPT ![w] = PayLoc(accountId, payReq)]
  /\ UNCHANGED <<store, health, invoices, logs, timer, hooks>>

Returned ==
  {"sp_resolved", "sp_rejected", "iv_resolved", "iv_rejected",
   "ck_resolved", "ck_rejected", "pm_resolved", "pm_rejected"}

\* the caller has its answer; the worker is free again
Return(w) ==
  /\ pc[w] \in Returned
  /\ Finish(w)
  /\ UNCHANGED <<store, health, node, logs, timer, hooks>>

----------------------------------------------------------------------------
(* Two concurrent callers of createLightningTransaction (POST              *)
(* /transactions, or any two services)                                     *)

Creators == {"c1", "c2"}

CreateInputs ==
  [accountId : AccountIds, rHash : {"h1", "h2"}, amount : Amounts,
   type : {INCOMING}, status : {Undefined, COMPLETE}]

EmptyLedger == [h \in Hashes |-> NoTx]

InitCreate ==
  /\ accounts = ExistingAccounts
  /\ txs \in {EmptyLedger,
              [EmptyLedger EXCEPT !["h1"] = TxRow("a1", 1, OUTGOING, FAILED)]}
  /\ txs0 = txs
  /\ dbUp = TRUE
  /\ outages = 0
  /\ invoices = <<>>
  /\ started = 0
  /\ pc = [c \in Creators |-> "ct_account"]
  /\ \E ins \in [Creators -> CreateInputs] :
       loc = [c \in Creators |->
                [op |-> "create", input |-> ins[c], err |-> NoErr, writes |-> 0]]
  /\ sends = <<>>
  /\ notes = <<>>
  /\ lastOp = NoOp
  /\ ServiceAtRest

NextCreate ==
  \/ StoreFails
  \/ StoreRecovers
  \/ \E p \in Creators : CltFindAccount(p)
  \/ \E p \in Creators : CltFindExisting(p)
  \/ \E p \in Creators : CltInsert(p)

SpecCreate == InitCreate /\ [][NextCreate]_vars

\* C27: createLightningTransaction with an accountId no account has fails
\* with NotFound and writes no transaction row; every stored transaction
\* references an existing account.
C27_UnknownAccountRejected ==
  /\ [](\A h \in Hashes : txs[h] # NoTx => AccountExists(txs[h].accountId))
  /\ [](\A c \in Creators :
          ~AccountExists(loc[c].input.accountId)
            => pc[c] \in {"ct_account", "ct_failed"} /\ loc[c].writes = 0)
  /\ [][\A c \in Creators :
          /\ pc[c] = "ct_account" /\ pc'[c] # pc[c]
          /\ dbUp /\ ~AccountExists(loc[c].input.accountId)
          => /\ pc'[c] = "ct_failed"
             /\ loc'[c].err = NotFoundError
             /\ txs' = txs]_vars

\* a call for the missing account "ax" has been rejected with NotFound
\* while the other call, for an existing account, has written its row
C27_Witness ==
  \E c, d \in Creators :
    /\ loc[c].input.accountId = "ax"
    /\ pc[c] = "ct_failed" /\ loc[c].err = NotFoundError /\ loc[c].writes = 0
    /\ pc[d] = "ct_ok" /\ loc[d].input.accountId = "a1"

\* a createLightningTransaction call has resolved or rejected
CreateDone(c) == pc[c] \in {"ct_ok", "ct_failed"}

\* two finished calls that raced for one hash no row held, on existing
\* accounts, with the store answering every query of both
RacedForHash(c, d) ==
  /\ c # d
  /\ loc[c].input.rHash = loc[d].input.rHash
  /\ txs0[loc[c].input.rHash] = NoTx
  /\ CreateDone(c) /\ CreateDone(d)
  /\ AccountExists(loc[c].input.accountId) /\ AccountExists(loc[d].input.accountId)
  /\ loc[c].err # PrismaInitError /\ loc[d].err # PrismaInitError

\* C1: of two concurrent createLightningTransaction calls with the same
\* payment hash, under every interleaving of their account lookup, existence
\* check and insert, exactly one succeeds, the other fails with a Conflict
\* error (HTTP 409), and exactly one row with that hash exists afterwards.
C1_OneWinsOtherConflict ==
  \A c, d \in Creators :
    RacedForHash(c, d) /\ pc[c] = "ct_ok" =>
      /\ pc[d] = "ct_failed"
      /\ StatusCode(loc[d].err) = 409
      /\ txs[loc[c].input.rHash] = NewRow(loc[c].input)

\* what the code does in that race: one call wins, its row is the one stored,
\* and the loser rejects with a plain Error (it saw the row in its existence
\* check) or with the store's unique-constraint error (it did not)
CreateRaceOutcome ==
  \A c, d \in Creators :
    RacedForHash(c, d) =>
      /\ (pc[c] = "ct_ok") # (pc[d] = "ct_ok")
      /\ pc[c] = "ct_ok" =>
           /\ loc[d].err \in {ExistsError, PrismaKnownError}
           /\ txs[loc[c].input.rHash] = NewRow(loc[c].input)

\* C11: a createLightningTransaction call with a payment hash that is already
\* recorded fails and leaves the existing row unchanged (account, amount,
\* direction and status as the table holds them): no step replaces a row that
\* is there, and a call only succeeds on a hash that no row holds, so the
\* table, keyed by the unique rHash, never holds a hash twice.
C11_ExistingRowKept ==
  [][/\ \A h \in Hashes : txs[h] # NoTx => txs'[h] = txs[h]
     /\ \A c \in Creators :
          pc[c] # "ct_ok" /\ pc'[c] = "ct_ok" =>
            /\ txs[loc[c].input.rHash] = NoTx
            /\ txs'[loc[c].input.rHash] = NewRow(loc[c].input)]_vars

\* a call for the hash of a row that was there from the start has failed on
\* its existence check, and the row is as it was
C11_Witness ==
  \E c \in Creators :
    /\ pc[c] = "ct_failed"
    /\ loc[c].err = ExistsError
    /\ txs0[loc[c].input.rHash] # NoTx
    /\ txs[loc[c].input.rHash] = txs0[loc[c].input.rHash]
    /\ txs[loc[c].input.rHash] # NewRow(loc[c].input)

----------------------------------------------------------------------------
(* The engine: two workers running the services' operations beside the     *)
(* node and the store                                                      *)

Init ==
  /\ accounts = ExistingAccounts
  /\ txs = EmptyLedger
  /\ txs0 = txs
  /\ dbUp = TRUE
  /\ outages = 0
  /\ invoices = <<>>
  /\ started = 0
  /\ pc = [w \in Workers |-> "idle"]
  /\ loc = [w \in Workers |-> IdleLoc]
  /\ sends = <<>>
  /\ notes = <<>>
  /\ lastOp = NoOp
  /\ ServiceAtRest

Next ==
  \/ StoreFails
  \/ StoreRecovers
  \/ NodeAddsInvoice
  \/ NodeSettles
  \/ NodeCancels
  \/ \E w \in Workers : PollTick(w)
  \/ \E w \in Workers : HuGet(w)
  \/ \E w \in Workers : HuUpdate(w)
  \/ \E w \in Workers : HuAccounts(w)
  \/ \E w \in Workers : CltFindAccount(w)
  \/ \E w \in Workers : CltFindExisting(w)
  \/ \E w \in Workers : CltInsert(w)
  \/ \E w \in Workers : MonitorTick(w)
  \/ \E w \in Workers : MnFind(w)
  \/ \E w \in Workers : MnUpdate(w)
  \/ \E w \in Workers : MnByName(w)
  \/ \E w \in Workers : MnAll(w)
  \/ \E w \in Workers : MnDefault(w)
  \/ \E w \in Workers : MnMkDefault(w)
  \/ \E w \in Workers : MnCreate(w)
  \/ \E w \in Workers : StartCheck(w)
  \/ \E w \in Workers : CkGet(w)
  \/ \E w \in Workers : CkLookup(w)
  \/ \E w \in Workers : CkUpdate(w)
  \/ \E w \in Workers : CkList(w)
  \/ \E w \in Workers : CkUpdateList(w)
  \/ \E w \in Workers : StartMulti(w)
  \/ \E w \in Workers : PmList(w)
  \/ \E w \in Workers : PmUpdate(w)
  \/ \E w \in Workers : StartInvoice(w)
  \/ \E w \in Workers : IvGetAccount(w)
  \/ \E w \in Workers : IvCreateInvoice(w)
  \/ \E w \in Workers : StartPay(w)
  \/ \E w \in Workers : PayGetAccount(w)
  \/ \E w \in Workers : PayDecode(w)
  \/ \E w \in Workers : PaySend(w)
  \/ \E w \in Workers : PayMarkFailed(w)
  \/ \E w \in Workers : PayMarkComplete(w)
  \/ \E w \in Workers : PayReread(w)
  \/ \E w \in Workers : PayCatch(w)
  \/ \E w \in Workers : Return(w)

Spec == Init /\ [][Next]_vars

\* C2: in every state reachable through the engine's operations a
\* transaction's status only ever changes Pending->Complete or
\* Pending->Failed; once Complete or Failed it never changes again (and the
\* row is never deleted).
C2_StatusOnlyLeavesPending ==
  [][\A h \in Hashes :
       txs[h] # NoTx =>
         /\ txs'[h] # NoTx
         /\ txs'[h].status # txs[h].status =>
              txs[h].status = PENDING /\ txs'[h].status \in Terminal]_vars

\* C4: for every account and every set of its transactions, the balance
\* DbService.getAccount / getAllAccounts report equals the sum over its
\* Complete Incoming transactions minus the sum over its Complete Outgoing
\* transactions; Pending and Failed transactions contribute nothing.
C4_BalanceCountsCompleteOnly ==
  \A i \in DOMAIN accounts :
    AccountBalance(txs, accounts[i].id) = EndpointBalance(txs, accounts[i].id)

\* the stored status of the transaction under h changes in this step
StatusChanged(h) ==
  /\ txs[h] # NoTx /\ txs'[h] # NoTx
  /\ txs'[h].status # txs[h].status

\* the step is taken by a call of one of the operations ops
StepOf(ops) ==
  \E w \in Workers :
    /\ pc'[w] # pc[w] \/ loc'[w] # loc[w]
    /\ loc[w].op \in ops

\* the step dispatches one notification, for h and the account that owns
\* the transaction under h
NotifiesOwner(h) ==
  /\ Len(notes') = Len(notes) + 1
  /\ notes'[Len(notes')].rHash = h
  /\ notes'[Len(notes')].accountId = txs[h].accountId

\* C33: every change of a stored transaction's status performed by the
\* reconciliation engine (the poller's handleInvoiceUpdate, the monitor's
\* checkForNewTransactions and both lookup paths of checkInvoiceStatus, to
\* Complete and to Failed alike) comes with the dispatch of a notification
\* to the webhooks of the owning account.
C33_StatusChangeNotified ==
  [][\A h \in Hashes :
       StepOf({"tick", "monitor", "check"}) /\ StatusChanged(h) => NotifiesOwner(h)]_vars

\* the same for the poller's handleInvoiceUpdate alone
PollerChangeNotified ==
  [][\A h \in Hashes :
       StepOf({"tick"}) /\ StatusChanged(h) => NotifiesOwner(h)]_vars

\* the step dispatches an invoice.updated notification for h
DispatchesUpdated(h) ==
  /\ Len(notes') = Len(notes) + 1
  /\ notes'[Len(notes')].event = "invoice.updated"
  /\ notes'[Len(notes')].rHash = h

\* C34: a single stored status transition of a transaction causes at most
\* one invoice.updated dispatch, even when two poll ticks overlap and both
\* observe the old status before either writes: every dispatch of a tick
\* comes with a change of the stored status.
C34_OneDispatchPerTransition ==
  [][\A h \in Hashes :
       StepOf({"tick"}) /\ DispatchesUpdated(h) => StatusChanged(h)]_vars

\* C35: every notification about a transaction goes to the webhooks of the
\* account that owns that transaction in the ledger; no operation,
\* processMultipleInvoices with the accountId of its caller included,
\* dispatches a transaction's event for another account.
C35_NotifiedAccountOwns ==
  \A i \in DOMAIN notes :
    /\ txs[notes[i].rHash] # NoTx
    /\ notes[i].accountId = txs[notes[i].rHash].accountId

\* the same for the dispatches of every operation but processMultipleInvoices
OthersNotifyOwner ==
  [][StepOf({"tick", "monitor", "check", "invoice", "pay"})
       /\ Len(notes') = Len(notes) + 1
       => LET note == notes'[Len(notes')]
          IN  txs'[note.rHash] # NoTx /\ note.accountId = txs'[note.rHash].accountId]_vars

\* the status a notification of `event` reports as written
StatusOf(event, h) ==
  CASE event = "payment.completed" -> {COMPLETE}
    [] event = "payment.failed" -> {FAILED}
    [] OTHER -> TransactionStatus

\* C36: every invoice.created, invoice.updated, payment.completed and
\* payment.failed notification is dispatched only after the store write for
\* that hash (the create, or the status update) has succeeded: a step that
\* dispatches one is the step in which that write succeeds, and a step
\* whose write fails dispatches none.
C36_NotifiedAfterWrite ==
  [][Len(notes') # Len(notes) =>
       /\ Len(notes') = Len(notes) + 1
       /\ LET note == notes'[Len(notes')]
          IN  IF note.event = "invoice.created"
                THEN txs[note.rHash] = NoTx /\ txs'[note.rHash] # NoTx
                ELSE /\ lastOp'.op = "update"
                     /\ lastOp'.rHash = note.rHash
                     /\ lastOp'.err = NoErr
                     /\ txs'[note.rHash].status = lastOp'.to
                     /\ lastOp'.to \in StatusOf(note.event, note.rHash)]_vars

\* an invoice has been recorded and notified as created, and the last
\* status update, for the same hash, failed and was not notified
C36_Witness ==
  /\ Len(notes) = 1
  /\ notes[1].event = "invoice.created"
  /\ lastOp.op = "update"
  /\ lastOp.err # NoErr
  /\ lastOp.rHash = notes[1].rHash

----------------------------------------------------------------------------
(* The engine together with PUT /transactions/:rHash/status                *)

\* TransactionController.updateTransactionStatus: the body's status is one
\* of the enum's values; await dbService.updateTransactionStatus(rHash, status)
PutTransactionStatus ==
  /\ started < MaxOps
  /\ started' = started + 1
  /\ \E h \in Hashes, status \in TransactionStatus :
       /\ lastOp' = UpdateRecord(h, status)
       /\ txs' = IF UpdateError(h) = NoErr THEN UpdatedTxs(h, status) ELSE txs
  /\ UNCHANGED <<accounts, txs0, health, invoices, pc, loc, sends, notes, timer, hooks>>

NextApi == Next \/ PutTransactionStatus

SpecApi == Init /\ [][NextApi]_vars

\* C3: updateTransactionStatus(hash, newStatus) called on a transaction whose
\* stored status is Complete or Failed is rejected with an error and leaves
\* the stored status unchanged, for every requested newStatus that differs
\* from the current one and for every caller, the PUT route included.
C3_TerminalUpdateRejected ==
  lastOp.op = "update" /\ lastOp.from \in Terminal /\ lastOp.to # lastOp.from
    => lastOp.err # NoErr

----------------------------------------------------------------------------
(* The poller on its own: the interval timer fires for as long as the      *)
(* process runs, while one createInvoiceForAccount call is served and      *)
(* invoices are made, settled and canceled at the node                     *)

Poller == "w1"
ApiWorker == "w2"

\* the locals of the poller after a callback whose fetch of the batch failed
FetchFailedLoc == [op |-> "idle", lastFetch |-> "failed"]

\* the callback fires and `await this.listInvoices(100)` resolves; invoices
\* without the account prefix are skipped without awaiting
PollTimer(w) ==
  /\ pc[w] = "idle"
  /\ Loop(w, "tick", SelectSeq(Listed, isOurInvoice))
  /\ UNCHANGED <<store, health, node, logs, timer, hooks>>

\* a callback without the outer catch: the rejection leaves the callback
\* unhandled and ends the process
PollTimerCrashes(w) ==
  /\ pc[w] = "idle"
  /\ pc' = [pc EXCEPT ![w] = "crashed"]
  /\ loc' = [loc EXCEPT ![w] = FetchFailedLoc]
  /\ UNCHANGED <<store, health, node, logs, timer, hooks>>

\* the callback fires and `await this.listInvoices(100)` rejects: the outer
\* catch logs the error and the callback returns
PollTimerFails(w) ==
  /\ pc[w] = "idle"
  /\ pc' = [pc EXCEPT ![w] = "idle"]
  /\ loc' = [loc EXCEPT ![w] = FetchFailedLoc]
  /\ UNCHANGED <<store, health, node, logs, timer, hooks>>

\* accounts created after alice and bob, as many as one page of
\* getAllAccounts holds
LaterAccounts ==
  [i \in 1..PageLimit |->
     [id |-> "b" \o ToString(i), name |-> "user" \o ToString(i)]]

\* the account table in creation order when more accounts exist than one
\* page holds
ManyAccounts == ExistingAccounts \o LaterAccounts

InitPoll ==
  /\ accounts \in {ExistingAccounts, ManyAccounts}
  /\ txs = EmptyLedger
  /\ txs0 = txs
  /\ dbUp = TRUE
  /\ outages = 0
  /\ invoices = <<>>
  /\ started = 0
  /\ pc = [w \in Workers |-> IF w = Poller THEN "idle" ELSE "iv_account"]
  /\ \E memo \in {NoMemo, Memo(TRUE, NoUser, {})} :
       loc = [w \in Workers |->
                IF w = Poller THEN IdleLoc ELSE InvoiceLoc("a1", 1, memo)]
  /\ sends = <<>>
  /\ notes = <<>>
  /\ lastOp = NoOp
  /\ ServiceAtRest

\* the steps of a poller callback after the fetch
PollSteps ==
  \/ HuGet(Poller)
  \/ HuUpdate(Poller)
  \/ HuAccounts(Poller)
  \/ CltFindAccount(Poller)
  \/ CltFindExisting(Poller)
  \/ CltInsert(Poller)

NextPoll ==
  \/ StoreFails
  \/ StoreRecovers
  \/ NodeAddsInvoice
  \/ NodeSettles
  \/ NodeCancels
  \/ PollTimer(Poller)
  \/ PollTimerFails(Poller)
  \/ PollSteps
  \/ IvGetAccount(ApiWorker)
  \/ IvCreateInvoice(ApiWorker)
  \/ CltFindAccount(ApiWorker)
  \/ CltFindExisting(ApiWorker)
  \/ CltInsert(ApiWorker)
  \/ Return(ApiWorker)

SpecPoll == InitPoll /\ [][NextPoll]_vars

\* fair scheduling: the timer keeps firing and the node answers the fetch
\* again and again, a callback that can take its next step takes it, and a
\* store that is down comes back
SpecPollFair ==
  /\ SpecPoll
  /\ SF_vars(PollTimer(Poller))
  /\ WF_vars(PollSteps)
  /\ WF_vars(StoreRecovers)

\* a tracked Pending incoming transaction whose invoice the node lists as
\* settled
SettledPending(h) ==
  /\ txs[h] # NoTx
  /\ txs[h].type = INCOMING
  /\ txs[h].status = PENDING
  /\ FindInvoice(Listed, h).rHash = h
  /\ FindInvoice(Listed, h).settled

\* C12: under fair scheduling of poll ticks and a reachable node, every
\* tracked Pending incoming transaction whose invoice is settled and in the
\* fetched batch eventually has status Complete, the invoices made by
\* createInvoiceForAccount included, whatever their memo.
C12_SettledEventuallyComplete ==
  \A h \in Hashes : SettledPending(h) ~> (txs[h].status = COMPLETE)

\* the poller's callback takes a step
PollerSteps == pc'[Poller] # pc[Poller] \/ loc'[Poller] # loc[Poller]

\* the status an invoice stands for: settled -> Complete, canceled -> Failed,
\* otherwise Pending
StatusFor(invoice) ==
  CASE invoice.state = "SETTLED" -> COMPLETE
    [] invoice.state = "CANCELED" -> FAILED
    [] OTHER -> PENDING

\* C13: when a poll tick processes an invoice whose hash matches a local
\* transaction, it calls updateTransactionStatus and dispatches
\* invoice.updated if and only if the stored status differs from the status
\* the invoice stands for; when they are equal there is no write and no
\* notification.  (The notification follows the update that the store
\* carried out.)
C13_UpdateIffDiffers ==
  [][LET inv == Head(loc[Poller].queue)
         h == inv.rHash
     IN  /\ pc[Poller] = "hu_get" /\ PollerSteps /\ dbUp /\ txs[h] # NoTx =>
              /\ (pc'[Poller] = "hu_update") <=> (txs[h].status # StatusFor(inv))
              /\ txs' = txs /\ notes' = notes /\ lastOp' = lastOp
         /\ pc[Poller] = "hu_update" /\ PollerSteps =>
              /\ txs[h].status # StatusFor(inv)
              /\ lastOp'.op = "update" /\ lastOp'.rHash = h
              /\ lastOp'.to = StatusFor(inv)
              /\ dbUp =>
                   /\ txs' = [txs EXCEPT ![h].status = StatusFor(inv)]
                   /\ notes' = Append(notes,
                        [event |-> "invoice.updated", rHash |-> h,
                         accountId |-> txs[h].accountId])
              /\ ~dbUp => txs' = txs /\ notes' = notes
         /\ lastOp' # lastOp => pc[Poller] = "hu_update"
         /\ (/\ Len(notes') > Len(notes)
             /\ notes'[Len(notes')].event = "invoice.updated")
              => pc[Poller] = "hu_update"]_vars

\* the two steps of the create branch of handleInvoiceUpdate: resolving the
\* account, and the insert with the notification that follows it
MatchedInvoiceRecorded ==
  LET inv == Head(loc[Poller].queue)
      h == inv.rHash
      status == IF inv.state = "SETTLED" THEN COMPLETE ELSE PENDING
  IN  /\ pc[Poller] = "hu_accounts" /\ PollerSteps /\ dbUp =>
           \A i \in DOMAIN accounts :
             accounts[i].name = extractUserIdentifier(inv.memo) =>
               /\ pc'[Poller] = "ct_account"
               /\ loc'[Poller].input.accountId = accounts[i].id
               /\ loc'[Poller].input.rHash = h
               /\ loc'[Poller].input.type = INCOMING
               /\ loc'[Poller].input.status = status
      /\ (/\ pc[Poller] = "ct_insert" /\ PollerSteps /\ dbUp
          /\ txs[loc[Poller].input.rHash] = NoTx) =>
           /\ txs' = [txs EXCEPT ![h] =
                TxRow(loc[Poller].input.accountId, inv.value, INCOMING,
                      loc[Poller].input.status)]
           /\ notes' = Append(notes,
                [event |-> "invoice.created", rHash |-> h,
                 accountId |-> loc[Poller].input.accountId])

\* C14: when a poll tick processes an untracked invoice whose memo yields a
\* name equal to the name of an existing account, it creates exactly one
\* Incoming transaction for that account, Complete if the invoice is settled
\* and Pending otherwise, and dispatches invoice.created, however many
\* accounts the store holds (more than the page size of 20 included).
C14_MatchedInvoiceRecorded == [][MatchedInvoiceRecorded]_vars

\* the same holds whenever all accounts fit one page of getAllAccounts
RecordedWithinOnePage ==
  [][Len(accounts) <= PageLimit => MatchedInvoiceRecorded]_vars

\* a tick has updated a tracked transaction and dispatched invoice.updated,
\* and is now at the same transaction in a later batch, with nothing to do
C13_Witness ==
  /\ lastOp.op = "update" /\ lastOp.err = NoErr /\ lastOp.from = PENDING
  /\ \E i \in DOMAIN notes :
       notes[i] = [event |-> "invoice.updated", rHash |-> lastOp.rHash,
                   accountId |-> "a1"]
  /\ pc[Poller] = "hu_get"
  /\ Head(loc[Poller].queue).rHash = lastOp.rHash
  /\ txs[lastOp.rHash].status = StatusFor(Head(loc[Poller].queue))

\* C17: if fetching the invoice batch fails during a tick, that tick makes no
\* store write and dispatches no notification, the failure does not escape
\* the timer callback (the callback has returned and the timer can fire
\* again), and the next tick works through the invoices the node lists.
C17_FetchFailureContained ==
  /\ [](loc[Poller] = FetchFailedLoc =>
          pc[Poller] = "idle" /\ ENABLED PollTimer(Poller))
  /\ [][/\ loc'[Poller] = FetchFailedLoc /\ PollerSteps =>
             /\ pc[Poller] = "idle"
             /\ UNCHANGED <<accounts, txs, notes, lastOp, sends>>
        /\ loc[Poller] = FetchFailedLoc /\ pc'[Poller] # "idle" =>
             /\ pc'[Poller] = "hu_get"
             /\ loc'[Poller].queue = SelectSeq(Listed, isOurInvoice)
             /\ UNCHANGED <<accounts, txs, notes, lastOp, sends>>]_vars

\* a fetch has failed while the node listed an invoice the poller handles,
\* after an earlier tick had recorded a transaction
C17_Witness ==
  /\ loc[Poller] = FetchFailedLoc
  /\ SelectSeq(Listed, isOurInvoice) # <<>>
  /\ \E i \in DOMAIN notes : notes[i].event = "invoice.created"

\* C37: createInvoiceForAccount succeeds whenever the account exists and
\* the external createInvoice succeeds, under every interleaving with poll
\* ticks: a call that is rejected was rejected for the missing account, by
\* the node, or by a store that could not be reached, never because a tick
\* recorded the new invoice first.
C37_InvoiceCallSurvivesTick ==
  \A w \in Workers :
    pc[w] = "iv_rejected" =>
      loc[w].err \in {AccountMissingError, LndApiError, PrismaInitError}

\* without a poll tick between the external createInvoice and the call's
\* own write, the call is not rejected for an existing row
InvoiceCallAloneSucceeds ==
  \A w \in Workers :
    pc[w] = "iv_rejected" /\ loc[w].err \in {ExistsError, PrismaKnownError}
      => \E i \in DOMAIN notes :
           /\ notes[i].event = "invoice.created"
           /\ notes[i].rHash = loc[w].input.rHash

----------------------------------------------------------------------------
(* The monitor on its own: runs of checkForNewTransactions over two        *)
(* invoices made at the node directly, which the node settles or cancels   *)

Monitor == "w1"

\* memos of the invoices: none, "userid:alice", "alice pays userid:bob" and
\* "for bob userid:carol"
MonitorMemos ==
  {NoMemo, Memo(FALSE, "alice", {"alice"}), Memo(FALSE, "bob", {"alice", "bob"}),
   Memo(FALSE, "carol", {"bob"})}

\* no invoice is tracked, or the second one is, as a Pending row of alice
MonitorLedgers ==
  {EmptyLedger,
   [EmptyLedger EXCEPT ![InvoiceHashes[2]] = TxRow("a1", 2, INCOMING, PENDING)]}

InitMonitor ==
  /\ accounts = ExistingAccounts
  /\ txs \in MonitorLedgers
  /\ txs0 = txs
  /\ dbUp = TRUE
  /\ outages = 0
  /\ \E m1 \in MonitorMemos, m2 \in MonitorMemos :
       invoices = <<Invoice(InvoiceHashes[1], "OPEN", m1, 2),
                    Invoice(InvoiceHashes[2], "OPEN", m2, 2)>>
  /\ started = 0
  /\ pc = [w \in Workers |-> "idle"]
  /\ loc = [w \in Workers |-> IdleLoc]
  /\ sends = <<>>
  /\ notes = <<>>
  /\ lastOp = NoOp
  /\ ServiceAtRest

NextMonitor ==
  \/ StoreFails
  \/ StoreRecovers
  \/ NodeSettles
  \/ NodeCancels
  \/ MonitorTick(Monitor)
  \/ MnFind(Monitor)
  \/ MnUpdate(Monitor)
  \/ MnByName(Monitor)
  \/ MnAll(Monitor)
  \/ MnDefault(Monitor)
  \/ MnMkDefault(Monitor)
  \/ MnCreate(Monitor)

SpecMonitor == InitMonitor /\ [][NextMonitor]_vars

\* the poller or monitor callback of worker w is at an invoice that is not
\* tracked and that carries no memo, or a memo that neither holds the name of
\* an account as its user identifier nor mentions one
AtUnattributable(w) ==
  /\ loc[w].op \in {"tick", "monitor"}
  /\ LET inv == Head(loc[w].queue)
     IN  /\ txs[inv.rHash] = NoTx
         /\ \/ inv.memo.empty
            \/ \A i \in DOMAIN accounts :
                 /\ accounts[i].name # inv.memo.userid
                 /\ accounts[i].name \notin inv.memo.mentions

\* C15: an external invoice that is not already tracked and either carries
\* no memo or yields no account match causes no store write and no
\* notification when a poll tick processes it: the ledger and the dispatched
\* notifications are unchanged by it.
C15_UnattributableSkipped ==
  [][\A w \in Workers :
       AtUnattributable(w) /\ (pc'[w] # pc[w] \/ loc'[w] # loc[w]) =>
         /\ txs' = txs
         /\ accounts' = accounts
         /\ notes' = notes]_vars

\* the rows of the account table a memo names by the captured group, and
\* those whose name occurs in it
NamedBy(memo) == {i \in DOMAIN accounts : accounts[i].name = memo.userid}
MentionedIn(memo) == {i \in DOMAIN accounts : accounts[i].name \in memo.mentions}

\* C24: determineAccountFromMemo applies its rules in strict order: the
\* account whose name equals the captured group, if the pattern matches and
\* such an account exists, even when the memo also contains another
\* account's name; only otherwise the first account whose name occurs in
\* the memo; only otherwise the default account.
C24_ResolverPrecedence ==
  pc[Monitor] = "mn_create" =>
    LET memo == Head(loc[Monitor].queue).memo
    IN  loc[Monitor].accountId =
          IF NamedBy(memo) # {}
            THEN accounts[CHOOSE i \in NamedBy(memo) : TRUE].id
          ELSE IF MentionedIn(memo) # {}
            THEN accounts[CHOOSE i \in MentionedIn(memo) :
                            \A j \in MentionedIn(memo) : i <= j].id
          ELSE accounts[CHOOSE i \in DOMAIN accounts :
                          accounts[i].name \in {"default", "unassigned"}].id

\* the resolver has returned bob for "alice pays userid:bob", where alice
\* comes first among the accounts the memo mentions
C24_Witness ==
  /\ pc[Monitor] = "mn_create"
  /\ Head(loc[Monitor].queue).memo = Memo(FALSE, "bob", {"alice", "bob"})
  /\ loc[Monitor].accountId = "a2"

\* C25: for any interleaving of resolver calls whose memo matches neither
\* the pattern nor an account name, at most one account named "default"
\* ever exists, and every call whose store is reachable comes back from
\* findDefaultAccount with the default account's id: none returns null
\* because another call created the account in the meantime.
C25_DefaultCreatedOnce ==
  /\ [](Cardinality({i \in DOMAIN accounts : accounts[i].name = "default"}) <= 1)
  /\ [][\A w \in Workers :
          pc[w] = "mn_mkDefault" /\ dbUp /\ pc'[w] # pc[w]
            => pc'[w] = "mn_create" /\ loc'[w].accountId = DefaultAccountId]_vars

\* C16: within one poll tick, an exception raised while processing one
\* invoice (a store call failing) does not prevent any later invoice of the
\* same batch from being processed: the callback goes on with the next
\* invoice of its batch.
C16_LaterInvoicesProcessed ==
  [][\A w \in Workers :
       (/\ loc[w].op \in {"tick", "monitor"}
        /\ pc'[w] # pc[w] \/ loc'[w] # loc[w]
        /\ ~dbUp
        /\ Len(loc[w].queue) > 1) =>
         /\ pc'[w] = LoopEntry(loc[w].op)
         /\ loc'[w].op = loc[w].op
         /\ loc'[w].queue = Tail(loc[w].queue)]_vars

----------------------------------------------------------------------------
(* Overlapping ticks: callbacks of the interval timer (or of two poller    *)
(* instances) that fetch the same invoices from a node that does not       *)
(* change meanwhile                                                        *)

\* memos of the invoices: "LNDA: userid:alice" and "LNDA: userid:carol"
OverlapMemos == {Memo(TRUE, "alice", {"alice"}), Memo(TRUE, "carol", {})}

\* an invoice is not tracked, or tracked as a Pending or Complete row of alice
OverlapRows ==
  {NoTx, TxRow("a1", 2, INCOMING, PENDING), TxRow("a1", 2, INCOMING, COMPLETE)}

InitOverlap ==
  /\ accounts = ExistingAccounts
  /\ \E r1 \in OverlapRows, r2 \in OverlapRows :
       txs = [EmptyLedger EXCEPT ![InvoiceHashes[1]] = r1,
                                 ![InvoiceHashes[2]] = r2]
  /\ txs0 = txs
  /\ dbUp = TRUE
  /\ outages = 0
  /\ \E s1 \in {"OPEN", "SETTLED", "CANCELED"}, s2 \in {"OPEN", "SETTLED"},
        m1 \in OverlapMemos :
       invoices = <<Invoice(InvoiceHashes[1], s1, m1, 2),
                    Invoice(InvoiceHashes[2], s2, Memo(TRUE, "alice", {"alice"}), 2)>>
  /\ started = 0
  /\ pc = [w \in Workers |-> "idle"]
  /\ loc = [w \in Workers |-> IdleLoc]
  /\ sends = <<>>
  /\ notes = <<>>
  /\ lastOp = NoOp
  /\ ServiceAtRest

\* a callback fires and its `await this.listInvoices(100)` resolves
OverlapTick(w) ==
  /\ Begins(w)
  /\ Loop(w, "tick", SelectSeq(Listed, isOurInvoice))
  /\ UNCHANGED <<store, health, invoices, logs, timer, hooks>>

NextOverlap ==
  \/ StoreFails
  \/ StoreRecovers
  \/ \E w \in Workers :
       \/ OverlapTick(w)
       \/ HuGet(w)
       \/ HuUpdate(w)
       \/ HuAccounts(w)
       \/ CltFindAccount(w)
       \/ CltFindExisting(w)
       \/ CltInsert(w)

SpecOverlap == InitOverlap /\ [][NextOverlap]_vars

\* the row of hash h after one tick that runs alone, without a failure, on
\* the ledger t: handleInvoiceUpdate applied to the invoice of that hash
TickResult(t, h) ==
  LET inv == FindInvoice(Listed, h)
      account == FindByName(FirstPage(accounts), extractUserIdentifier(inv.memo))
  IN  IF inv.rHash = "none" \/ ~isOurInvoice(inv) THEN t[h]
      ELSE IF t[h] # NoTx THEN [t[h] EXCEPT !.status = StatusFor(inv)]
      ELSE IF account # NoAccount
        THEN TxRow(account.id, inv.value, INCOMING,
                   IF inv.state = "SETTLED" THEN COMPLETE ELSE PENDING)
        ELSE NoTx

\* the ledger after one tick, and after two ticks one after the other
AfterOneTick == [h \in Hashes |-> TickResult(txs0, h)]
AfterTwoTicks == [h \in Hashes |-> TickResult(AfterOneTick, h)]

\* all ticks have run to their end and no store call failed
TicksDone ==
  started = MaxOps /\ outages = 0 /\ \A w \in Workers : pc[w] = "idle"

\* the number of invoice.created notifications for hash h: one for every
\* insert of a row with that hash that the store carried out
RECURSIVE CreatedCount(_, _)
CreatedCount(log, h) ==
  IF log = <<>> THEN 0
  ELSE (IF Head(log).event = "invoice.created" /\ Head(log).rHash = h
          THEN 1 ELSE 0) + CreatedCount(Tail(log), h)

\* C18: for any interleaving of two overlapping poll ticks over the same
\* invoices, the ledger holds at most one transaction per payment hash and
\* the same final statuses as a single tick would produce.
C18_SameAsSingleTick ==
  /\ \A h \in Hashes : CreatedCount(notes, h) <= 1
  /\ \A h \in Hashes : txs[h] \in {txs0[h], AfterOneTick[h]}
  /\ TicksDone => txs = AfterOneTick

\* what does hold: at most one transaction is inserted per payment hash, and
\* every row is as it was, or as one tick or two ticks one after the other
\* would leave it; once the ticks have ended without a failure every row is
\* as one tick or two ticks one after the other would leave it.
SameAsSequentialTicks ==
  /\ \A h \in Hashes : CreatedCount(notes, h) <= 1
  /\ \A h \in Hashes : txs[h] \in {txs0[h], AfterOneTick[h], AfterTwoTicks[h]}
  /\ TicksDone => \A h \in Hashes : txs[h] \in {AfterOneTick[h], AfterTwoTicks[h]}

\* two ticks overlapped on an untracked canceled invoice and have ended: the
\* row was inserted once, as Pending, and the tick whose insert was refused
\* left it so, where a tick that started afterwards would have set it Failed
OverlappedOnCanceled ==
  /\ TicksDone
  /\ \E h \in Hashes :
       /\ txs0[h] = NoTx
       /\ txs[h] = AfterOneTick[h]
       /\ AfterOneTick[h] # AfterTwoTicks[h]
       /\ CreatedCount(notes, h) = 1

----------------------------------------------------------------------------
(* LndService.setupPolling and stopPolling: the interval timers.  A timer  *)
(* is named after the worker that runs its callbacks.                      *)

\* setupPolling(): this.pollingInterval = setInterval(...); a timer that is
\* already set is not cleared
SetupPolling ==
  /\ \E id \in Workers :
       /\ id \notin timers /\ pc[id] = "idle"
       /\ \A v \in Workers :
            v \notin timers /\ pc[v] = "idle" => WorkerRank(id) <= WorkerRank(v)
       /\ timers' = timers \cup {id}
       /\ pollingInterval' = id
  /\ UNCHANGED <<store, health, node, pc, loc, logs, hooks>>

\* stopPolling(): if (this.pollingInterval) { clearInterval(...); = null }
StopPolling ==
  /\ IF pollingInterval # NoTimer
       THEN /\ timers' = timers \ {pollingInterval}
            /\ pollingInterval' = NoTimer
       ELSE UNCHANGED timer
  /\ UNCHANGED <<store, health, node, pc, loc, logs, hooks>>

\* a timer that is set fires: its callback starts and `await
\* this.listInvoices(100)` resolves
TimerFires(w) ==
  /\ w \in timers
  /\ pc[w] = "idle"
  /\ Loop(w, "tick", SelectSeq(Listed, isOurInvoice))
  /\ UNCHANGED <<store, health, node, logs, timer, hooks>>

\* the constructor has called setupPolling; the node holds an invoice with
\* the account prefix
InitTimer ==
  /\ accounts = ExistingAccounts
  /\ txs = EmptyLedger
  /\ txs0 = txs
  /\ dbUp = TRUE
  /\ outages = 0
  /\ invoices = <<Invoice(InvoiceHashes[1], "OPEN", Memo(TRUE, "alice", {"alice"}), 2)>>
  /\ started = 0
  /\ pc = [w \in Workers |-> "idle"]
  /\ loc = [w \in Workers |-> IdleLoc]
  /\ sends = <<>>
  /\ notes = <<>>
  /\ lastOp = NoOp
  /\ timers = {Poller}
  /\ pollingInterval = Poller
  /\ webhooks = <<>>
  /\ deliveries = <<>>

NextTimer ==
  \/ StoreFails
  \/ StoreRecovers
  \/ NodeSettles
  \/ NodeCancels
  \/ SetupPolling
  \/ StopPolling
  \/ \E w \in Workers :
       \/ TimerFires(w)
       \/ HuGet(w)
       \/ HuUpdate(w)
       \/ HuAccounts(w)
       \/ CltFindAccount(w)
       \/ CltFindExisting(w)
       \/ CltInsert(w)

SpecTimer == InitTimer /\ [][NextTimer]_vars

\* a tick starts only while pollingInterval is set, and the step of
\* stopPolling() that clears it leaves every callback where it is
NoTickAfterStop ==
  /\ \A w \in Workers :
       pc[w] = "idle" /\ pc'[w] # "idle" => pollingInterval # NoTimer
  /\ pollingInterval # NoTimer /\ pollingInterval' = NoTimer =>
       pc' = pc /\ loc' = loc

\* C19: after stopPolling() returns no new poll tick ever starts, however
\* many times setupPolling() was called before; a tick in flight when
\* stopPolling() is called still runs to completion.  (pollingInterval is
\* null exactly from a stopPolling() to the next setupPolling(); a tick
\* starts when a callback leaves "idle".)
C19_NoTickAfterStop == [][NoTickAfterStop]_vars

\* the same while the only timer set is the one pollingInterval holds
NoTickAfterStopOfOnlyTimer ==
  [][timers \subseteq {pollingInterval} => NoTickAfterStop]_vars

----------------------------------------------------------------------------
(* LndService.notifyWebhooks(event, data), while webhooks are enabled,     *)
(* disabled and deleted through the webhook routes                         *)

WebhookIds == <<"k1", "k2", "k3">>

\* the caller of notifyWebhooks: one call at a time
Notifier == "w1"

\* a row of table "webhooks"
Webhook(id, accountId, enabled) ==
  [id |-> id, accountId |-> accountId, enabled |-> enabled]

\* the webhook table when a call starts: webhooks of alice, and one that is
\* alice's or bob's
WebhookTables ==
  {<<Webhook(WebhookIds[1], "a1", e1), Webhook(WebhookIds[2], owner, e2),
     Webhook(WebhookIds[3], "a1", TRUE)>> :
     e1 \in BOOLEAN, e2 \in BOOLEAN, owner \in {"a1", "a2"}}

\* prisma.webhook.findMany({ where: { accountId } })
WebhooksOf(accountId) ==
  SelectSeq(webhooks, LAMBDA hook : hook.accountId = accountId)

\* a dispatcher that does not look at the enabled flag
DeliverableAlways(hook) == TRUE

\* .filter(webhook => webhook.enabled)
Deliverable(hook) == hook.enabled

\* the HTTP request sendWebhookNotification makes for one webhook
Delivery(hook, event) == [webhook |-> hook.id, event |-> event]

\* the requests .map(async webhook => sendWebhookNotification(...)) makes:
\* each callback runs up to req.end() before the next one starts
Deliveries(found, event) ==
  [i \in 1..Len(found) |-> Delivery(found[i], event)]

NotifyLoc(event, accountId) ==
  [op |-> "notify", event |-> event, accountId |-> accountId, pending |-> {},
   failed |-> {}]

\* what the caller of a notifyWebhooks call sees that has ended after the
\* deliveries to `failed` did not succeed
NotifyResult(result, failed) ==
  [op |-> "idle", result |-> result, failed |-> failed]

\* a dispatcher that hands a failed delivery on to its caller
NotifyEndsRejecting(w, failed) ==
  /\ pc' = [pc EXCEPT ![w] = "idle"]
  /\ loc' = [loc EXCEPT ![w] =
       NotifyResult(IF failed = {} THEN "resolved" ELSE "rejected", failed)]

\* the promise notifyWebhooks returned settles: every error was caught and
\* logged (the catch around each delivery, and the outer catch), so it
\* resolves
NotifyEnds(w, failed) ==
  /\ pc' = [pc EXCEPT ![w] = "idle"]
  /\ loc' = [loc EXCEPT ![w] = NotifyResult("resolved", failed)]

\* notifyWebhooks(event, data) is called: without data.accountId it returns
\* at once; otherwise it awaits getWebhooksByAccountId
NotifyStart(w) ==
  /\ Begins(w)
  /\ \E accountId \in {"a1", Undefined}, event \in {"invoice.updated"} :
       /\ Notify(event, InvoiceHashes[1], accountId)
       /\ IF accountId = Undefined
            THEN NotifyEnds(w, {})
            ELSE /\ pc' = [pc EXCEPT ![w] = "nw_lookup"]
                 /\ loc' = [loc EXCEPT ![w] = NotifyLoc(event, accountId)]
  /\ UNCHANGED <<store, health, invoices, sends, lastOp, timer, hooks>>

\* `await getWebhooksByAccountId` settles; the requests to the enabled
\* webhooks are made before the next await (Promise.all)
NwLookup(w) ==
  /\ pc[w] = "nw_lookup"
  /\ IF ~dbUp
       THEN NotifyEnds(w, {}) /\ UNCHANGED deliveries    \* caught and logged
       ELSE LET found == SelectSeq(WebhooksOf(loc[w].accountId), Deliverable)
            IN  IF WebhooksOf(loc[w].accountId) = <<>>
                  THEN NotifyEnds(w, {}) /\ UNCHANGED deliveries
                  ELSE /\ deliveries' = deliveries \o Deliveries(found, loc[w].event)
                       /\ pc' = [pc EXCEPT ![w] = "nw_wait"]
                       /\ loc' = [loc EXCEPT ![w].pending =
                            {found[i].id : i \in 1..Len(found)}]
  /\ UNCHANGED <<store, health, node, logs, timer, webhooks>>

\* the request to one webhook ends: a response of any status resolves the
\* promise, a request error rejects it and is caught; nothing is sent again
NwResponse(w) ==
  /\ pc[w] = "nw_wait"
  /\ \E id \in loc[w].pending, outcome \in {"2xx", "non-2xx", "error"} :
       loc' = [loc EXCEPT ![w].pending = @ \ {id},
                          ![w].failed = IF outcome = "2xx" THEN @ ELSE @ \cup {id}]
  /\ UNCHANGED <<store, health, node, pc, logs, timer, hooks>>

\* await Promise.all(notificationPromises) resolves
NwJoin(w) ==
  /\ pc[w] = "nw_wait"
  /\ loc[w].pending = {}
  /\ NotifyEnds(w, loc[w].failed)
  /\ UNCHANGED <<store, health, node, logs, timer, hooks>>

\* PUT /webhooks/:id with { enabled }
WebhookToggled ==
  /\ dbUp
  /\ \E i \in DOMAIN webhooks :
       webhooks' = [webhooks EXCEPT ![i].enabled = ~@]
  /\ UNCHANGED <<store, health, node, pc, loc, logs, timer, deliveries>>

\* DELETE /webhooks/:id
WebhookDeleted ==
  /\ dbUp
  /\ \E i \in DOMAIN webhooks :
       webhooks' = SelectSeq(webhooks, LAMBDA hook : hook.id # webhooks[i].id)
  /\ UNCHANGED <<store, health, node, pc, loc, logs, timer, deliveries>>

InitNotify ==
  /\ accounts = ExistingAccounts
  /\ txs = EmptyLedger
  /\ txs0 = txs
  /\ dbUp = TRUE
  /\ outages = 0
  /\ invoices = <<>>
  /\ started = 0
  /\ pc = [w \in Workers |-> "idle"]
  /\ loc = [w \in Workers |-> IdleLoc]
  /\ sends = <<>>
  /\ notes = <<>>
  /\ lastOp = NoOp
  /\ timers = {}
  /\ pollingInterval = NoTimer
  /\ webhooks \in WebhookTables
  /\ deliveries = <<>>

NextNotify ==
  \/ StoreFails
  \/ StoreRecovers
  \/ WebhookToggled
  \/ WebhookDeleted
  \/ NotifyStart(Notifier)
  \/ NwLookup(Notifier)
  \/ NwResponse(Notifier)
  \/ NwJoin(Notifier)

SpecNotify == InitNotify /\ [][NextNotify]_vars

\* how many requests the log holds for webhook id
RECURSIVE AttemptCount(_, _)
AttemptCount(log, id) ==
  IF log = <<>> THEN 0
  ELSE (IF Head(log).webhook = id THEN 1 ELSE 0) + AttemptCount(Tail(log), id)

\* the call of worker w gets the answer of its lookup in this step
LooksUp(w) == pc[w] = "nw_lookup" /\ pc'[w] # "nw_lookup" /\ dbUp

\* C20: for one notifyWebhooks(event, payload) call, each webhook that
\* belongs to payload.accountId and is enabled at lookup time receives
\* exactly one delivery attempt, never retried whatever the response;
\* webhooks that are disabled, deleted or owned by another account receive
\* none; when payload.accountId is absent there is no lookup and no delivery.
C20_OneAttemptPerEnabledWebhook ==
  [][/\ \A w \in Workers : LooksUp(w) =>
          \A k \in DOMAIN WebhookIds :
            AttemptCount(deliveries', WebhookIds[k])
              = AttemptCount(deliveries, WebhookIds[k])
                + (IF \E i \in DOMAIN webhooks :
                        /\ webhooks[i].id = WebhookIds[k]
                        /\ webhooks[i].accountId = loc[w].accountId
                        /\ webhooks[i].enabled
                     THEN 1 ELSE 0)
     /\ (\A w \in Workers : ~LooksUp(w)) => deliveries' = deliveries
     /\ \A w \in Workers :
          pc[w] = "idle" /\ pc'[w] = "nw_lookup" =>
            /\ loc'[w].accountId # Undefined
            /\ Len(notes') = Len(notes) + 1
     /\ \A w \in Workers :
          (/\ pc[w] = "idle" /\ started' # started
           /\ Len(notes') = Len(notes)) =>      \* a call without accountId
            pc'[w] = "idle" /\ deliveries' = deliveries]_vars

\* a call for alice has made its requests while the table held an enabled
\* and a disabled webhook of alice and a webhook of bob; one of the
\* requests has been answered and none has been made twice
C20_Witness ==
  \E w \in Workers :
    /\ pc[w] = "nw_wait"
    /\ loc[w].pending # {}
    /\ \E i \in DOMAIN deliveries : deliveries[i].webhook \notin loc[w].pending
    /\ \E i \in DOMAIN webhooks : ~webhooks[i].enabled /\ webhooks[i].accountId = "a1"
    /\ \E i \in DOMAIN webhooks : webhooks[i].accountId = "a2"
    /\ \A k \in DOMAIN WebhookIds : AttemptCount(deliveries, WebhookIds[k]) <= 1
    /\ AttemptCount(deliveries, WebhookIds[2]) = 0
    /\ started = 1

\* C21: in notifyWebhooks a failed delivery to one endpoint (network error
\* or non-2xx response) never prevents the delivery attempt to any other
\* enabled endpoint of the same account, and notifyWebhooks always completes
\* without propagating an error to its caller, whatever the delivery
\* outcomes, a failing webhook lookup included.
C21_FailuresContained ==
  /\ [](\A w \in Workers : pc[w] = "nw_wait" =>
          \A id \in loc[w].pending \cup loc[w].failed :
            AttemptCount(deliveries, id) >= 1)
  /\ [][\A w \in Workers :
          /\ (pc[w] = "nw_wait" /\ loc'[w] # loc[w] /\ pc'[w] = "nw_wait") =>
               /\ deliveries' = deliveries
               /\ Cardinality(loc'[w].pending) = Cardinality(loc[w].pending) - 1
               /\ loc'[w].pending \subseteq loc[w].pending
          /\ (pc[w] \in {"nw_lookup", "nw_wait"} /\ pc'[w] = "idle") =>
               loc'[w].result = "resolved"
          /\ (pc[w] = "nw_lookup" /\ pc'[w] # "nw_lookup" /\ ~dbUp) =>
               /\ pc'[w] = "idle"
               /\ loc'[w].result = "resolved"
               /\ deliveries' = deliveries]_vars

\* a call has ended after requests to two webhooks of which one failed
C21_Witness ==
  \E w \in Workers :
    /\ pc[w] = "idle" /\ loc[w] # IdleLoc
    /\ loc[w].result = "resolved"
    /\ Cardinality(loc[w].failed) = 1
    /\ started = 1
    /\ \E i \in DOMAIN deliveries, j \in DOMAIN deliveries :
         /\ deliveries[i].webhook \in loc[w].failed
         /\ deliveries[j].webhook \notin loc[w].failed
         /\ i < j

\* fair scheduling of a notifyWebhooks call: the store answers the lookup
\* and the continuation of Promise.all runs once every request has ended.
\* When a request ends is up to the endpoint: the request is made without a
\* timeout option and nothing else ends it, so no fairness is assumed for
\* the responses.
SpecNotifyFair ==
  /\ SpecNotify
  /\ WF_vars(NwLookup(Notifier))
  /\ WF_vars(NwJoin(Notifier))

\* the same when every endpoint answers, or fails, in the end
SpecNotifyAnswered ==
  /\ SpecNotifyFair
  /\ WF_vars(NwResponse(Notifier))

\* C31: every notifyWebhooks call eventually completes, even if a webhook
\* endpoint accepts the connection and never responds: callers that await
\* it cannot block forever.
C31_NotifyCompletes ==
  (pc[Notifier] \in {"nw_lookup", "nw_wait"}) ~> (pc[Notifier] = "idle")

----------------------------------------------------------------------------
(* LndService.sendWebhookNotification: the signed request, a network that  *)
(* may replace its body, and a receiver that verifies it as the README     *)
(* shows.  HMAC-SHA256 is an ideal MAC: two tags are equal exactly when    *)
(* key and text are.                                                       *)

Sender == "w1"
Receiver == "w2"

Secrets == {"s1", "s2"}
Events == {"invoice.created", "invoice.updated", "payment.completed", "payment.failed"}
Timestamps == {"t1", "t2"}

\* the data argument of notifyWebhooks
EventData == [rHash : {"h1", "h2"}, accountId : {"a1", "a2"}, status : {PENDING, COMPLETE}]

\* const payload = { event, data, timestamp: new Date().toISOString() }
Payload(event, data, timestamp) ==
  [event |-> event, data |-> data, timestamp |-> timestamp]

\* JSON.stringify(payload): the members in the order of the object literal
Serialize(payload) ==
  <<"event", payload.event, "data", payload.data, "timestamp", payload.timestamp>>

\* crypto.createHmac('sha256', secret).update(text).digest('hex')
Hmac(secret, text) == [key |-> secret, text |-> text]

\* a signature over the data member alone
SignatureOverDataOnly(secret, data) == Hmac(secret, <<"data", data.data>>)

\* hmac.update(JSON.stringify(data)); return hmac.digest('hex')
generateWebhookSignature(secret, data) == Hmac(secret, Serialize(data))

\* the request req.write(requestData) / req.end() sends to webhook.url
SignedRequest(hook, payload) ==
  [webhook |-> hook.id,
   body |-> Serialize(payload),
   signature |-> generateWebhookSignature(hook.secret, payload)]

\* README: verifyWebhookSignature(payload, signature, secret), the payload
\* being the parsed body
verifyWebhookSignature(body, signature, secret) == Hmac(secret, body) = signature

SignLoc(payload) == [op |-> "sign", payload |-> payload]

\* one enabled webhook with its secret; the map callback of notifyWebhooks
\* has built the payload and calls sendWebhookNotification
InitSign ==
  /\ accounts = ExistingAccounts
  /\ txs = EmptyLedger
  /\ txs0 = txs
  /\ dbUp = TRUE
  /\ outages = 0
  /\ invoices = <<>>
  /\ started = 0
  /\ pc = [w \in Workers |-> IF w = Sender THEN "sw_send" ELSE "idle"]
  /\ \E event \in Events, data \in EventData, timestamp \in Timestamps :
       loc = [w \in Workers |->
                IF w = Sender THEN SignLoc(Payload(event, data, timestamp))
                ELSE IdleLoc]
  /\ sends = <<>>
  /\ notes = <<>>
  /\ lastOp = NoOp
  /\ timers = {}
  /\ pollingInterval = NoTimer
  /\ \E secret \in Secrets :
       webhooks = <<[id |-> WebhookIds[1], accountId |-> loc[Sender].payload.data.accountId,
                     enabled |-> TRUE, secret |-> secret]>>
  /\ deliveries = <<>>

\* sendWebhookNotification(webhook, payload) up to req.end()
SwSend(w) ==
  /\ pc[w] = "sw_send"
  /\ deliveries' = Append(deliveries, SignedRequest(webhooks[1], loc[w].payload))
  /\ Goto(w, "sw_sent")
  /\ UNCHANGED <<store, health, node, loc, logs, timer, webhooks>>

\* the body of the request is replaced on its way; the header is kept
BodyTampered ==
  /\ pc[Receiver] = "idle" /\ loc[Receiver] = IdleLoc
  /\ deliveries # <<>>
  /\ \E event \in Events, data \in EventData :
       /\ Serialize(Payload(event, data, loc[Sender].payload.timestamp))
            # deliveries[1].body
       /\ deliveries' = [deliveries EXCEPT ![1].body =
            Serialize(Payload(event, data, loc[Sender].payload.timestamp))]
  /\ UNCHANGED <<store, health, node, pc, loc, logs, timer, webhooks>>

\* the endpoint receives the request and verifies it with its secret
ReceiverVerifies ==
  /\ pc[Receiver] = "idle" /\ loc[Receiver] = IdleLoc
  /\ deliveries # <<>>
  /\ loc' = [loc EXCEPT ![Receiver] =
       [op |-> "idle",
        accepted |-> verifyWebhookSignature(deliveries[1].body,
                       deliveries[1].signature, webhooks[1].secret)]]
  /\ UNCHANGED <<store, health, node, pc, logs, timer, hooks>>

NextSign ==
  \/ SwSend(Sender)
  \/ BodyTampered
  \/ ReceiverVerifies

SpecSign == InitSign /\ [][NextSign]_vars

\* C22: for every delivery the X-Webhook-Signature header equals HMAC-SHA256
\* keyed with the receiving webhook's own secret over exactly the serialized
\* envelope {event, data, timestamp} that is sent as the request body, so a
\* receiver that recomputes the HMAC over the received body with its secret
\* accepts an untampered delivery and rejects a body that differs from the
\* signed one.
C22_SignatureCoversBody ==
  /\ [][pc[Sender] = "sw_send" /\ pc'[Sender] # "sw_send" =>
          LET request == deliveries'[Len(deliveries')]
              sent == [event |-> loc[Sender].payload.event,
                       data |-> loc[Sender].payload.data,
                       timestamp |-> loc[Sender].payload.timestamp]
          IN  /\ Len(deliveries') = Len(deliveries) + 1
              /\ request.body = Serialize(sent)
              /\ request.signature = Hmac(webhooks[1].secret, request.body)]_vars
  /\ [](loc[Receiver] # IdleLoc =>
          (loc[Receiver].accepted
             <=> deliveries[1].body = Serialize(loc[Sender].payload)))

\* the receiver has rejected a delivery whose body was replaced
C22_Witness ==
  /\ loc[Receiver] # IdleLoc
  /\ ~loc[Receiver].accepted
  /\ deliveries[1].body # Serialize(loc[Sender].payload)
  /\ deliveries[1].signature = Hmac(webhooks[1].secret, Serialize(loc[Sender].payload))

----------------------------------------------------------------------------
(* Creating webhooks: POST /webhooks (WebhookController.createWebhook) and *)
(* LndService.createWebhookForAccount, both through DbService.createWebhook *)

\* crypto.randomBytes(32).toString('hex')
GeneratedSecret == "generated"

\* a || b on strings: b when a is undefined or ''.  The members of a
\* request body are kept as their JSON text.
OrElse(a, b) == IF a = Undefined \/ a = "" THEN b ELSE a

HookLoc(path, accountId, secret, enabled) ==
  [op |-> path, err |-> NoErr,
   input |-> [accountId |-> accountId, secret |-> secret, enabled |-> enabled]]

\* WebhookController.createWebhook after validation:
\* dbService.createWebhook({ accountId, url, secret: secret || '', enabled })
StartPostWebhook(w) ==
  /\ Begins(w)
  /\ \E accountId \in {"a1", "ax"}, secret \in {Undefined, "s1"},
        enabled \in {Undefined, "false"} :
       loc' = [loc EXCEPT ![w] =
                 HookLoc("postWebhook", accountId, OrElse(secret, ""), enabled)]
  /\ Goto(w, "wh_account")
  /\ UNCHANGED <<store, health, invoices, logs, timer, hooks>>

\* createWebhookForAccount(accountId, url, secret = ''):
\* webhookSecret = secret || crypto.randomBytes(32).toString('hex')
StartCreateWebhookForAccount(w) ==
  /\ Begins(w)
  /\ \E accountId \in {"a1", "ax"}, secret \in {"", "s2"} :
       loc' = [loc EXCEPT ![w] =
                 HookLoc("createWebhookForAccount", accountId,
                         OrElse(secret, GeneratedSecret), "true")]
  /\ Goto(w, "wh_account")
  /\ UNCHANGED <<store, health, invoices, logs, timer, hooks>>

\* a DbService whose catch hands an AppError on as it is
KeepAppError(err) == IF err = NotFoundError THEN err ELSE handleDatabaseError(err)

\* catch (error) { throw handleDatabaseError(error) } around the body of
\* createWebhook and updateWebhook
Rethrown(err) == handleDatabaseError(err)

\* DbService.createWebhook: await prisma.account.findUnique(...); the
\* NotFoundError is thrown inside the try block
WhFindAccount(w) ==
  /\ pc[w] = "wh_account"
  /\ IF ~dbUp
       THEN Throw(w, Rethrown(PrismaInitError), "wh_rejected")
       ELSE IF ~AccountExists(loc[w].input.accountId)
         THEN Throw(w, Rethrown(NotFoundError), "wh_rejected")
         ELSE Goto(w, "wh_create") /\ UNCHANGED loc
  /\ UNCHANGED <<store, health, node, logs, timer, hooks>>

\* DbService.createWebhook: await prisma.webhook.create({ data }), with
\* enabled: input.enabled ?? true
WhCreate(w) ==
  /\ pc[w] = "wh_create"
  /\ Len(webhooks) < Len(WebhookIds)
  /\ IF ~dbUp
       THEN Throw(w, Rethrown(PrismaInitError), "wh_rejected") /\ UNCHANGED webhooks
       ELSE /\ webhooks' = Append(webhooks,
                 [id |-> WebhookIds[Len(webhooks) + 1],
                  accountId |-> loc[w].input.accountId,
                  enabled |-> IF loc[w].input.enabled = Undefined THEN TRUE
                              ELSE loc[w].input.enabled = "true",
                  secret |-> loc[w].input.secret])
            /\ Goto(w, "wh_resolved") /\ UNCHANGED loc
  /\ UNCHANGED <<store, health, node, logs, timer, deliveries>>

\* dbService.updateWebhook(id, { enabled: false })
StartUpdateWebhook(w) ==
  /\ Begins(w)
  /\ \E id \in {WebhookIds[1], "kx"} :
       loc' = [loc EXCEPT ![w] =
                 [op |-> "updateWebhook", err |-> NoErr, input |-> [id |-> id]]]
  /\ Goto(w, "wu_find")
  /\ UNCHANGED <<store, health, invoices, logs, timer, hooks>>

\* prisma.webhook.findUnique({ where: { id } }) finds a row
WebhookExists(id) == \E i \in DOMAIN webhooks : webhooks[i].id = id

\* DbService.updateWebhook: await prisma.webhook.findUnique({ where: { id } })
WuFind(w) ==
  /\ pc[w] = "wu_find"
  /\ IF ~dbUp
       THEN Throw(w, Rethrown(PrismaInitError), "wh_rejected")
       ELSE IF ~WebhookExists(loc[w].input.id)
         THEN Throw(w, Rethrown(NotFoundError), "wh_rejected")
         ELSE Goto(w, "wu_update") /\ UNCHANGED loc
  /\ UNCHANGED <<store, health, node, logs, timer, hooks>>

\* DbService.updateWebhook: await prisma.webhook.update({ where: { id }, data })
WuUpdate(w) ==
  /\ pc[w] = "wu_update"
  /\ IF ~dbUp
       THEN Throw(w, Rethrown(PrismaInitError), "wh_rejected") /\ UNCHANGED webhooks
       ELSE /\ webhooks' = [i \in DOMAIN webhooks |->
                 IF webhooks[i].id = loc[w].input.id
                   THEN [webhooks[i] EXCEPT !.enabled = FALSE]
                   ELSE webhooks[i]]
            /\ Goto(w, "wh_resolved") /\ UNCHANGED loc
  /\ UNCHANGED <<store, health, node, logs, timer, deliveries>>

\* the caller has its answer
WhReturn(w) ==
  /\ pc[w] \in {"wh_resolved", "wh_rejected"}
  /\ Finish(w)
  /\ UNCHANGED <<store, health, node, logs, timer, hooks>>

InitHooks ==
  /\ accounts = ExistingAccounts
  /\ txs = EmptyLedger
  /\ txs0 = txs
  /\ dbUp = TRUE
  /\ outages = 0
  /\ invoices = <<>>
  /\ started = 0
  /\ pc = [w \in Workers |-> "idle"]
  /\ loc = [w \in Workers |-> IdleLoc]
  /\ sends = <<>>
  /\ notes = <<>>
  /\ lastOp = NoOp
  /\ ServiceAtRest

NextHooks ==
  \/ StoreFails
  \/ StoreRecovers
  \/ \E w \in Workers :
       \/ StartPostWebhook(w)
       \/ StartCreateWebhookForAccount(w)
       \/ WhFindAccount(w)
       \/ WhCreate(w)
       \/ StartUpdateWebhook(w)
       \/ WuFind(w)
       \/ WuUpdate(w)
       \/ WhReturn(w)

SpecHooks == InitHooks /\ [][NextHooks]_vars

\* the call of worker w asks for an account, or for a webhook, that the
\* store reports as missing in this step
FindsNothing(w) ==
  /\ dbUp
  /\ pc'[w] # pc[w]
  /\ \/ pc[w] = "wh_account" /\ ~AccountExists(loc[w].input.accountId)
     \/ pc[w] = "wu_find" /\ ~WebhookExists(loc[w].input.id)

\* C32: DbService.createWebhook for an account id that does not exist, and
\* DbService.updateWebhook for a webhook id that does not exist, fail with
\* an error of the NotFound kind (HTTP 404) as seen by the caller, and write
\* nothing.
C32_MissingTargetNotFound ==
  [][\A w \in Workers :
       FindsNothing(w) =>
         /\ pc'[w] = "wh_rejected"
         /\ StatusCode(loc'[w].err) = 404
         /\ webhooks' = webhooks]_vars

\* what the code keeps of it: the call is rejected and nothing is written
MissingTargetRejected ==
  [][\A w \in Workers :
       FindsNothing(w) =>
         /\ pc'[w] = "wh_rejected"
         /\ loc'[w].err # NoErr
         /\ webhooks' = webhooks]_vars

\* C23: every webhook stored through any creation path (POST /webhooks, or
\* createWebhookForAccount) has a non-empty signing secret: when the caller
\* supplies none, a secret is generated.
C23_SecretNeverEmpty ==
  \A i \in DOMAIN webhooks : webhooks[i].secret \notin {"", Undefined}

\* the same for the webhooks createWebhookForAccount stores
SecretOfServicePathNeverEmpty ==
  [][\A w \in Workers :
       (/\ loc[w].op = "createWebhookForAccount"
        /\ Len(webhooks') = Len(webhooks) + 1 /\ pc'[w] = "wh_resolved"
        /\ pc[w] = "wh_create")
         => webhooks'[Len(webhooks')].secret \notin {"", Undefined}]_vars

----------------------------------------------------------------------------
(* POST /accounts: AccountController.createAccount through                 *)
(* DbService.createAccount, answered by the error middleware               *)

\* names a request may carry: one an account has, and two nobody has
NewAccountNames == {"alice", "carol", "dave"}

AccountLoc(name) == [op |-> "createAccount", err |-> NoErr, name |-> name, status |-> 0]

\* the controller has a name and calls dbService.createAccount({ name })
StartCreateAccount(w) ==
  /\ Begins(w)
  /\ \E name \in NewAccountNames : loc' = [loc EXCEPT ![w] = AccountLoc(name)]
  /\ Goto(w, "ac_create")
  /\ UNCHANGED <<store, health, invoices, logs, timer, hooks>>

\* DbService.createAccount: await this.prisma.account.create({ data }), with
\* no catch: the rejection of the store reaches the error middleware as it
\* is, and the controller answers 201 when the call resolves
AcCreate(w) ==
  /\ pc[w] = "ac_create"
  /\ IF ~dbUp
       THEN /\ pc' = [pc EXCEPT ![w] = "ac_rejected"]
            /\ loc' = [loc EXCEPT ![w].err = PrismaInitError,
                                  ![w].status = StatusCode(PrismaInitError)]
            /\ UNCHANGED accounts
       ELSE IF FindByName(accounts, loc[w].name) # NoAccount   \* name @unique
         THEN /\ pc' = [pc EXCEPT ![w] = "ac_rejected"]
              /\ loc' = [loc EXCEPT ![w].err = PrismaKnownError,
                                    ![w].status = StatusCode(PrismaKnownError)]
              /\ UNCHANGED accounts
         ELSE /\ accounts' = Append(accounts,
                   [id |-> "n" \o ToString(Len(accounts) + 1), name |-> loc[w].name])
              /\ pc' = [pc EXCEPT ![w] = "ac_resolved"]
              /\ loc' = [loc EXCEPT ![w].status = 201]
  /\ UNCHANGED <<txs, txs0, health, node, logs, timer, hooks>>

\* the response has been sent
AcReturn(w) ==
  /\ pc[w] \in {"ac_resolved", "ac_rejected"}
  /\ Finish(w)
  /\ UNCHANGED <<store, health, node, logs, timer, hooks>>

InitAccounts ==
  /\ accounts \in {<<>>, ExistingAccounts}
  /\ txs = EmptyLedger
  /\ txs0 = txs
  /\ dbUp = TRUE
  /\ outages = 0
  /\ invoices = <<>>
  /\ started = 0
  /\ pc = [w \in Workers |-> "idle"]
  /\ loc = [w \in Workers |-> IdleLoc]
  /\ sends = <<>>
  /\ notes = <<>>
  /\ lastOp = NoOp
  /\ ServiceAtRest

NextAccounts ==
  \/ StoreFails
  \/ StoreRecovers
  \/ \E w \in Workers :
       \/ StartCreateAccount(w)
       \/ AcCreate(w)
       \/ AcReturn(w)

SpecAccounts == InitAccounts /\ [][NextAccounts]_vars

\* account names are pairwise distinct
NamesDistinct ==
  \A i, j \in DOMAIN accounts : accounts[i].name = accounts[j].name => i = j

\* C26: createAccount with a name an existing account has fails with a
\* Conflict error (HTTP 409) and creates no account; account names are
\* pairwise distinct at all times.
C26_DuplicateNameConflicts ==
  /\ []NamesDistinct
  /\ [][\A w \in Workers :
          /\ pc[w] = "ac_create" /\ pc'[w] # pc[w]
          /\ dbUp /\ FindByName(accounts, loc[w].name) # NoAccount
          => /\ accounts' = accounts
             /\ loc'[w].err = ConflictError
             /\ loc'[w].status = 409]_vars

\* what the code does keep: the call is rejected and no account is created
DuplicateNameRejected ==
  /\ []NamesDistinct
  /\ [][\A w \in Workers :
          /\ pc[w] = "ac_create" /\ pc'[w] # pc[w]
          /\ dbUp /\ FindByName(accounts, loc[w].name) # NoAccount
          => accounts' = accounts /\ pc'[w] = "ac_rejected"]_vars

----------------------------------------------------------------------------
(* lndUtils.toHexString.  A text is the sequence of its characters, a      *)
(* buffer the sequence of its bytes.                                       *)

Converter == "w1"

\* the bytes of a payment identifier: 0x00, 0x69, 0xab, 0xff
IdBytes == {0, 105, 171, 255}

\* identifiers are IdLen bytes long, standing for the 32 bytes of a payment
\* hash
IdLen == 2

PaymentIds == [1..IdLen -> IdBytes]

HexDigits ==
  <<"0", "1", "2", "3", "4", "5", "6", "7", "8", "9", "a", "b", "c", "d", "e", "f">>
UpperHexDigits ==
  <<"0", "1", "2", "3", "4", "5", "6", "7", "8", "9", "A", "B", "C", "D", "E", "F">>

Base64Alphabet ==
  <<"A", "B", "C", "D", "E", "F", "G", "H", "I", "J", "K", "L", "M",
    "N", "O", "P", "Q", "R", "S", "T", "U", "V", "W", "X", "Y", "Z",
    "a", "b", "c", "d", "e", "f", "g", "h", "i", "j", "k", "l", "m",
    "n", "o", "p", "q", "r", "s", "t", "u", "v", "w", "x", "y", "z",
    "0", "1", "2", "3", "4", "5", "6", "7", "8", "9", "+", "/">>

RangeOf(seq) == {seq[i] : i \in DOMAIN seq}

\* buffer.toString('hex')
RECURSIVE HexOf(_)
HexOf(bytes) ==
  IF bytes = <<>> THEN <<>>
  ELSE <<HexDigits[(Head(bytes) \div 16) + 1], HexDigits[(Head(bytes) % 16) + 1]>>
         \o HexOf(Tail(bytes))

\* text.toUpperCase() of a hex text
UpperCase(text) ==
  [i \in DOMAIN text |->
     IF \E d \in DOMAIN HexDigits : HexDigits[d] = text[i]
       THEN UpperHexDigits[CHOOSE d \in DOMAIN HexDigits : HexDigits[d] = text[i]]
       ELSE text[i]]

\* buffer.toString('base64')
RECURSIVE Base64Of(_)
Base64Of(bytes) ==
  IF bytes = <<>> THEN <<>>
  ELSE IF Len(bytes) = 1
    THEN <<Base64Alphabet[(bytes[1] \div 4) + 1],
           Base64Alphabet[((bytes[1] % 4) * 16) + 1], "=", "=">>
  ELSE IF Len(bytes) = 2
    THEN <<Base64Alphabet[(bytes[1] \div 4) + 1],
           Base64Alphabet[((bytes[1] % 4) * 16) + (bytes[2] \div 16) + 1],
           Base64Alphabet[((bytes[2] % 16) * 4) + 1], "=">>
  ELSE <<Base64Alphabet[(bytes[1] \div 4) + 1],
         Base64Alphabet[((bytes[1] % 4) * 16) + (bytes[2] \div 16) + 1],
         Base64Alphabet[((bytes[2] % 16) * 4) + (bytes[3] \div 64) + 1],
         Base64Alphabet[(bytes[3] % 64) + 1]>>
         \o Base64Of(SubSeq(bytes, 4, Len(bytes)))

\* the 6-bit value of a base64 character
Sextet(c) == (CHOOSE d \in DOMAIN Base64Alphabet : Base64Alphabet[d] = c) - 1

\* the characters Buffer.from(text, 'base64') decodes: those before the
\* first "=", without the ones outside the alphabet
RECURSIVE Base64Chars(_)
Base64Chars(text) ==
  IF text = <<>> \/ Head(text) = "=" THEN <<>>
  ELSE IF Head(text) \in RangeOf(Base64Alphabet)
    THEN <<Head(text)>> \o Base64Chars(Tail(text))
  ELSE Base64Chars(Tail(text))

\* the bytes of a run of base64 characters, four characters to three bytes
RECURSIVE BytesOfSextets(_)
BytesOfSextets(cs) ==
  IF Len(cs) < 2 THEN <<>>
  ELSE LET b1 == (Sextet(cs[1]) * 4) + (Sextet(cs[2]) \div 16) IN
       IF Len(cs) = 2 THEN <<b1>>
       ELSE LET b2 == ((Sextet(cs[2]) % 16) * 16) + (Sextet(cs[3]) \div 4) IN
            IF Len(cs) = 3 THEN <<b1, b2>>
            ELSE <<b1, b2, ((Sextet(cs[3]) % 4) * 64) + Sextet(cs[4])>>
                   \o BytesOfSextets(SubSeq(cs, 5, Len(cs)))

\* Buffer.from(text, 'base64'); it does not throw
FromBase64(text) == BytesOfSextets(Base64Chars(text))

\* /^[0-9a-f]+$/i.test(value)
LooksLikeHex(text) ==
  text # <<>> /\ RangeOf(text) \subseteq RangeOf(HexDigits) \cup RangeOf(UpperHexDigits)

StringValue(text) == [type |-> "string", text |-> text]
BufferValue(bytes) == [type |-> "buffer", bytes |-> bytes]

\* lndUtils.toHexString(value)
toHexString(value) ==
  IF value.type = "undefined" THEN <<>>
  ELSE IF value.type = "string"
    THEN IF LooksLikeHex(value.text) THEN value.text
         ELSE HexOf(FromBase64(value.text))
  ELSE HexOf(value.bytes)

\* the forms in which the node and callers hand over the identifier id
EncodingsOf(id) ==
  {StringValue(HexOf(id)), StringValue(UpperCase(HexOf(id))),
   StringValue(Base64Of(id)), BufferValue(id)}

HexLoc(id, value) ==
  [op |-> "toHexString", id |-> id, value |-> value, result |-> <<>>, again |-> <<>>]

InitHex ==
  /\ accounts = ExistingAccounts
  /\ txs = EmptyLedger
  /\ txs0 = txs
  /\ dbUp = TRUE
  /\ outages = 0
  /\ invoices = <<>>
  /\ started = 0
  /\ pc = [w \in Workers |-> IF w = Converter THEN "hx_value" ELSE "idle"]
  /\ \E id \in PaymentIds : \E value \in EncodingsOf(id) \cup {[type |-> "undefined"]} :
       loc = [w \in Workers |-> IF w = Converter THEN HexLoc(id, value) ELSE IdleLoc]
  /\ sends = <<>>
  /\ notes = <<>>
  /\ lastOp = NoOp
  /\ ServiceAtRest

\* result = lndUtils.toHexString(value)
HexFirst ==
  /\ pc[Converter] = "hx_value"
  /\ loc' = [loc EXCEPT ![Converter].result = toHexString(loc[Converter].value)]
  /\ Goto(Converter, "hx_result")
  /\ UNCHANGED <<store, health, node, logs, timer, hooks>>

\* again = lndUtils.toHexString(result)
HexAgain ==
  /\ pc[Converter] = "hx_result"
  /\ loc' = [loc EXCEPT ![Converter].again = toHexString(StringValue(loc[Converter].result))]
  /\ Goto(Converter, "hx_again")
  /\ UNCHANGED <<store, health, node, logs, timer, hooks>>

NextHex == HexFirst \/ HexAgain

SpecHex == InitHex /\ [][NextHex]_vars

\* the value is one of the forms of the identifier (not undefined)
OfIdentifier == loc[Converter].value.type # "undefined"

\* C28: toHexString applied to the hex string of a payment identifier (in
\* lower or upper case), to its base64 string and to its byte buffer yields
\* the same lowercase hex string, and toHexString of that result returns it
\* unchanged.
C28_CanonicalHex ==
  /\ pc[Converter] \in {"hx_result", "hx_again"} /\ OfIdentifier
       => loc[Converter].result = HexOf(loc[Converter].id)
  /\ pc[Converter] = "hx_again" /\ OfIdentifier
       => loc[Converter].again = loc[Converter].result

\* the same without the upper-case hex form
CanonicalHexOfOtherForms ==
  pc[Converter] \in {"hx_result", "hx_again"} /\ OfIdentifier
    /\ loc[Converter].value # StringValue(UpperCase(HexOf(loc[Converter].id)))
    => /\ loc[Converter].result = HexOf(loc[Converter].id)
       /\ pc[Converter] = "hx_again" => loc[Converter].again = loc[Converter].result

----------------------------------------------------------------------------
(* The stored form of payment hashes: POST /transactions (the controller   *)
(* of transactionController.ts and the one of part_006) beside the poller. *)
(* Hashes are texts here, and the ledger has a place for every text a      *)
(* caller can send for the identifiers of LedgerIds.                       *)

ValidationError == "ValidationError"        \* AppError, statusCode 400

\* 0x00 0xab and 0x00 0x69
LedgerIds == {<<0, 171>>, <<0, 105>>}

\* what a request body can carry as rHash for an identifier
TextsOf(id) == {HexOf(id), UpperCase(HexOf(id)), Base64Of(id)}

HashTexts == UNION {TextsOf(id) : id \in LedgerIds}

EmptyTextLedger == [k \in HashTexts |-> NoTx]

\* TransactionController.createTransaction (transactionController.ts):
\* dbService.createLightningTransaction({ accountId, rHash, ... }) with the
\* rHash of the body as it is
StartCreateTransaction(w) ==
  /\ Begins(w)
  /\ \E rHash \in HashTexts :
       loc' = [loc EXCEPT ![w] =
                 [op |-> "create", err |-> NoErr, writes |-> 0,
                  input |-> [accountId |-> "a1", rHash |-> rHash, amount |-> 1,
                             type |-> INCOMING, status |-> PENDING]]]
  /\ Goto(w, "ct_account")
  /\ UNCHANGED <<store, health, invoices, logs, timer, hooks>>

\* createTransaction of part_006 after validation
StartCreateNormalized(w) ==
  /\ Begins(w)
  /\ \E rHash \in HashTexts :
       loc' = [loc EXCEPT ![w] =
                 [op |-> "createNormalized", err |-> NoErr, writes |-> 0,
                  input |-> [accountId |-> "a1", rHash |-> rHash, amount |-> 1,
                             type |-> INCOMING, status |-> PENDING]]]
  /\ Goto(w, "p6_account")
  /\ UNCHANGED <<store, health, invoices, logs, timer, hooks>>

\* part_006: await prisma.account.findUnique(...); then
\* normalizedRHash = lndUtils.toHexString(rHash)
P6FindAccount(w) ==
  /\ pc[w] = "p6_account"
  /\ IF ~dbUp
       THEN Throw(w, PrismaInitError, "ct_failed")
       ELSE IF ~AccountExists(loc[w].input.accountId)
         THEN Throw(w, NotFoundError, "ct_failed")
         ELSE /\ pc' = [pc EXCEPT ![w] = "p6_exists"]
              /\ loc' = [loc EXCEPT ![w].input.rHash =
                            toHexString(StringValue(loc[w].input.rHash))]
  /\ UNCHANGED <<store, health, node, logs, timer, hooks>>

\* part_006: await prisma.lightningTransaction.findUnique({ rHash: normalizedRHash })
P6FindExisting(w) ==
  /\ pc[w] = "p6_exists"
  /\ IF ~dbUp
       THEN Throw(w, PrismaInitError, "ct_failed")
       ELSE IF txs[loc[w].input.rHash] # NoTx
         THEN Throw(w, ValidationError, "ct_failed")
         ELSE Goto(w, "p6_create") /\ UNCHANGED loc
  /\ UNCHANGED <<store, health, node, logs, timer, hooks>>

\* part_006: await prisma.lightningTransaction.create({ rHash: normalizedRHash, ... })
P6Create(w) ==
  /\ pc[w] = "p6_create"
  /\ IF ~dbUp
       THEN Throw(w, PrismaInitError, "ct_failed") /\ UNCHANGED txs
       ELSE IF ~InsertAllowed(loc[w].input)
         THEN Throw(w, PrismaKnownError, "ct_failed") /\ UNCHANGED txs
         ELSE /\ txs' = [txs EXCEPT ![loc[w].input.rHash] = NewRow(loc[w].input)]
              /\ pc' = [pc EXCEPT ![w] = "ct_ok"]
              /\ loc' = [loc EXCEPT ![w].writes = @ + 1]
  /\ UNCHANGED <<accounts, txs0, health, node, logs, lastOp, timer, hooks>>

\* the response of POST /transactions has been sent
CtReturn(w) ==
  /\ pc[w] \in {"ct_ok", "ct_failed"}
  /\ Finish(w)
  /\ UNCHANGED <<store, health, node, logs, timer, hooks>>

\* the node lists one invoice made for alice, whose r_hash it gives in
\* base64; the poller reads it as toHexString(invoice.r_hash)
InitCanon ==
  /\ accounts = ExistingAccounts
  /\ txs \in {EmptyTextLedger,
              [EmptyTextLedger EXCEPT ![HexOf(<<0, 171>>)] =
                 TxRow("a1", 2, INCOMING, PENDING)]}
  /\ txs0 = txs
  /\ dbUp = TRUE
  /\ outages = 0
  /\ invoices = <<Invoice(toHexString(StringValue(Base64Of(<<0, 171>>))), "SETTLED",
                          Memo(TRUE, "alice", {"alice"}), 2)>>
  /\ started = 0
  /\ pc = [w \in Workers |-> "idle"]
  /\ loc = [w \in Workers |-> IdleLoc]
  /\ sends = <<>>
  /\ notes = <<>>
  /\ lastOp = NoOp
  /\ ServiceAtRest

NextCanon ==
  \/ StoreFails
  \/ StoreRecovers
  \/ \E w \in Workers :
       \/ PollTick(w)
       \/ HuGet(w)
       \/ HuUpdate(w)
       \/ HuAccounts(w)
       \/ StartCreateTransaction(w)
       \/ StartCreateNormalized(w)
       \/ CltFindAccount(w)
       \/ CltFindExisting(w)
       \/ CltInsert(w)
       \/ P6FindAccount(w)
       \/ P6FindExisting(w)
       \/ P6Create(w)
       \/ CtReturn(w)

SpecCanon == InitCanon /\ [][NextCanon]_vars

\* the stored hashes
StoredHashes == {k \in DOMAIN txs : txs[k] # NoTx}

\* C29: every stored transaction hash is in canonical lowercase-hex form,
\* so the same payment identifier is never recorded twice under two
\* encodings or letter cases.
C29_StoredHashesCanonical ==
  /\ \A k \in StoredHashes : \E id \in LedgerIds : k = HexOf(id)
  /\ \A id \in LedgerIds : Cardinality(StoredHashes \cap TextsOf(id)) <= 1

\* with the controller of part_006 alone, no base64 text is stored
NormalizedNeverBase64 ==
  [][\A w \in Workers :
       pc[w] = "p6_create" /\ txs' # txs
         => \E id \in LedgerIds : loc[w].input.rHash \in {HexOf(id), UpperCase(HexOf(id))}]_vars

----------------------------------------------------------------------------
(* Two concurrent sendPaymentFromAccount calls (POST /payments requests)   *)

Payers == {"p1", "p2"}

\* the hashes of the payment requests being paid
PayHashes == {"h2", "h3"}

\* what decodePaymentRequest reports as num_satoshis: absent, or an amount
DecodedSats ==
  {[hasSats |-> FALSE, numSatoshis |-> 0]} \cup
  {[hasSats |-> TRUE, numSatoshis |-> a] : a \in {1, MaxAmount}}

\* the ledger before the calls: nothing, or one invoice of account a1 under
\* h1 as createInvoiceForAccount and the poller leave it
StartLedgers ==
  {EmptyLedger} \cup
  {[EmptyLedger EXCEPT !["h1"] = TxRow("a1", a, INCOMING, st)] :
     a \in {1, MaxAmount}, st \in TransactionStatus}

InitPay ==
  /\ accounts = ExistingAccounts
  /\ txs \in StartLedgers
  /\ txs0 = txs
  /\ dbUp = TRUE
  /\ outages = 0
  /\ invoices = <<>>
  /\ started = 0
  /\ pc = [p \in Payers |-> "sp_account"]
  /\ \E sats \in [PayHashes -> DecodedSats],
        who \in {f \in [Payers -> {"a1", "ax"}] : f["p1"] = "a1"},
        what \in [Payers -> PayHashes] :
       loc = [p \in Payers |->
                PayLoc(who[p], [paymentHash |-> what[p],
                                hasSats |-> sats[what[p]].hasSats,
                                numSatoshis |-> sats[what[p]].numSatoshis])]
  /\ sends = <<>>
  /\ notes = <<>>
  /\ lastOp = NoOp
  /\ ServiceAtRest

NextPay ==
  \/ StoreFails
  \/ StoreRecovers
  \/ \E p \in Payers : PayGetAccount(p)
  \/ \E p \in Payers : PayDecode(p)
  \/ \E p \in Payers : CltFindAccount(p)
  \/ \E p \in Payers : CltFindExisting(p)
  \/ \E p \in Payers : CltInsert(p)
  \/ \E p \in Payers : PaySend(p)
  \/ \E p \in Payers : PayMarkFailed(p)
  \/ \E p \in Payers : PayMarkComplete(p)
  \/ \E p \in Payers : PayReread(p)
  \/ \E p \in Payers : PayCatch(p)

SpecPay == InitPay /\ [][NextPay]_vars

----------------------------------------------------------------------------
(* Properties of sendPaymentFromAccount *)

PayDone(p) == pc[p] \in {"sp_resolved", "sp_rejected"}

SendsOf(p) == {i \in DOMAIN sends : sends[i].call = p}

Noted(event, h, accountId) ==
  \E i \in DOMAIN notes :
    notes[i] = [event |-> event, rHash |-> h, accountId |-> accountId]

RECURSIVE SentTotal(_, _)
SentTotal(accountId, n) ==
  IF n = 0 THEN 0
  ELSE SentTotal(accountId, n - 1) +
       (IF sends[n].accountId = accountId THEN sends[n].amount ELSE 0)

\* C5: sendPaymentFromAccount never invokes the external sendPayment unless
\* the account's balance counted over Complete transactions only is at least
\* the decoded amount: Pending incoming invoices cannot fund a payment.
C5_SendOnlyFromSettledFunds ==
  \A i \in DOMAIN sends : sends[i].settled >= sends[i].amount

\* C6: for any interleaving of two concurrent sendPaymentFromAccount calls on
\* one account with distinct payment hashes, the total amount for which an
\* external sendPayment is attempted never exceeds the account's balance at
\* the start.
C6_NoOverspend ==
  \A p, q \in Payers :
    /\ p # q
    /\ loc[p].accountId = loc[q].accountId
    /\ loc[p].payReq.paymentHash # loc[q].payReq.paymentHash
    => SentTotal(loc[p].accountId, Len(sends)) <= AccountBalance(txs0, loc[p].accountId)

\* C7: when the balance the call read for the account is less than the amount
\* decoded from the payment request, sendPaymentFromAccount fails with the
\* insufficient-balance error, never invokes the external sendPayment and
\* writes no transaction row.
C7_InsufficientRejects ==
  \A p \in Payers :
    loc[p].amount # NotDecoded /\ loc[p].balance < loc[p].amount =>
      /\ pc[p] = "sp_rejected"
      /\ loc[p].err = InsufficientError
      /\ SendsOf(p) = {}
      /\ loc[p].writes = 0
      /\ (\A q \in Payers : loc[q].writes = 0) => txs = txs0

C7_Witness ==
  \E p \in Payers :
    /\ loc[p].amount # NotDecoded /\ loc[p].balance < loc[p].amount
    /\ loc[p].balance > 0
    /\ pc[p] = "sp_rejected"
    /\ loc[p].err = InsufficientError
    /\ txs = txs0

\* C8: in every execution of sendPaymentFromAccount that reaches the external
\* send, the Pending Outgoing row for the payment hash is in the store when
\* sendPayment is invoked, and sendPayment is invoked exactly once per call,
\* whatever its outcome.
C8_PendingRowThenOneSend ==
  /\ \A i \in DOMAIN sends :
       sends[i].row = TxRow(sends[i].accountId, sends[i].amount, OUTGOING, PENDING)
  /\ \A p \in Payers :
       /\ Cardinality(SendsOf(p)) <= 1
       /\ loc[p].sendResult # "none" => Cardinality(SendsOf(p)) = 1
       /\ loc[p].sendResult = "none" => SendsOf(p) = {}

C8_Witness ==
  \E p \in Payers :
    /\ PayDone(p)
    /\ loc[p].sendResult = "threw"
    /\ Cardinality(SendsOf(p)) = 1
    /\ \A i \in SendsOf(p) : sends[i].row.status = PENDING

\* C9: if the external sendPayment succeeds, then when sendPaymentFromAccount
\* finishes the transaction is Complete and a payment.completed notification
\* has been dispatched; a payment that succeeded externally is never recorded
\* as Failed, whatever happens in the remaining steps of the call.
C9_PaidEndsComplete ==
  \A p \in Payers :
    loc[p].sendResult = "ok" =>
      /\ txs[loc[p].input.rHash].status # FAILED
      /\ PayDone(p) =>
           /\ txs[loc[p].input.rHash].status = COMPLETE
           /\ Noted("payment.completed", loc[p].input.rHash, loc[p].accountId)

\* C30: after a sendPaymentFromAccount call that ends with its transaction
\* Failed, the balance getAccount reports for the account equals the balance
\* it reported before the call: a failed outgoing payment does not debit
\* the account.  Stated for a call beside which no other call has written.
C30_FailedPaymentNoDebit ==
  \A p \in Payers :
    /\ PayDone(p)
    /\ loc[p].writes > 0
    /\ txs[loc[p].input.rHash].status = FAILED
    /\ \A q \in Payers \ {p} : loc[q].writes = 0
    => AccountBalance(txs, loc[p].accountId) = AccountBalance(txs0, loc[p].accountId)

\* C10: if the external sendPayment returns a payment_error or rejects, then
\* in both cases the transaction becomes Failed, a payment.failed
\* notification is dispatched for the account, and the error is surfaced to
\* the caller.  Stated for the runs in which the store answers every call.
C10_FailureMarkedAndNotified ==
  \A p \in Payers :
    /\ PayDone(p)
    /\ loc[p].sendResult \in {"payment_error", "threw"}
    /\ outages = 0
    => /\ pc[p] = "sp_rejected"
       /\ txs[loc[p].input.rHash].status = FAILED
       /\ Noted("payment.failed", loc[p].input.rHash, loc[p].accountId)

====
